---- MODULE Spec2Model ----
(***************************************************************************)
(* Model of I18nProjectManager (project-structure inference, language      *)
(* enumeration and target-path resolution) of translate-i18n-vscode.       *)
(*                                                                         *)
(* A string is a sequence of one-character strings, a path is a sequence   *)
(* of names (POSIX, absolute, already normalised), so that matching,       *)
(* splitting, case conversion and path arithmetic are computed character   *)
(* by character as the code computes them.                                 *)
(***************************************************************************)
EXTENDS Integers, Sequences, FiniteSets, TLC

VARIABLES
  fs,    \* the filesystem: existing path |-> "file" or "dir"
  arg,   \* the string handed to the pure language-code operations
  last,  \* the last call observed: operation, arguments, outcome
  running,  \* per concurrent caller: the call it is in, step by step
  keys,     \* the API key in secret storage and in the configuration
  command   \* the translate command in progress and its per-language tasks

vars == <<fs, arg, last, running, keys, command>>

(***************************************************************************)
(* Characters and String.prototype helpers                                 *)
(***************************************************************************)
LowerCase ==
  <<"a","b","c","d","e","f","g","h","i","j","k","l","m",
    "n","o","p","q","r","s","t","u","v","w","x","y","z">>

UpperCase ==
  <<"A","B","C","D","E","F","G","H","I","J","K","L","M",
    "N","O","P","Q","R","S","T","U","V","W","X","Y","Z">>

Digits == <<"0","1","2","3","4","5","6","7","8","9">>

IsLower(c) == \E i \in 1..26 : LowerCase[i] = c

IsUpper(c) == \E i \in 1..26 : UpperCase[i] = c

IsDigit(c) == \E i \in 1..10 : Digits[i] = c

CharToUpper(c) ==
  IF IsLower(c) THEN UpperCase[CHOOSE i \in 1..26 : LowerCase[i] = c] ELSE c

CharToLower(c) ==
  IF IsUpper(c) THEN LowerCase[CHOOSE i \in 1..26 : UpperCase[i] = c] ELSE c

toUpperCase(s) == [i \in 1..Len(s) |-> CharToUpper(s[i])]

toLowerCase(s) == [i \in 1..Len(s) |-> CharToLower(s[i])]

\* s.endsWith(suffix)
endsWith(s, suffix) ==
  /\ Len(suffix) <= Len(s)
  /\ SubSeq(s, Len(s) - Len(suffix) + 1, Len(s)) = suffix

\* s.indexOf(t), 1-based; 0 when t does not occur (JavaScript: -1)
indexOf(s, t) ==
  LET hits == {i \in 1..(Len(s) - Len(t) + 1) : SubSeq(s, i, i + Len(t) - 1) = t}
  IN  IF hits = {} THEN 0 ELSE CHOOSE i \in hits : \A j \in hits : i <= j

\* s.replace(/-/g, "_")
replaceHyphens(s) == [i \in 1..Len(s) |-> IF s[i] = "-" THEN "_" ELSE s[i]]

RECURSIVE split(_, _)
\* s.split(sep) for a one-character separator: never empty, "" -> [""]
split(s, sep) ==
  LET k == indexOf(s, <<sep>>)
  IN  IF k = 0 THEN <<s>>
      ELSE <<SubSeq(s, 1, k - 1)>> \o split(SubSeq(s, k + 1, Len(s)), sep)

RECURSIVE join(_, _)
\* parts.join(sep)
join(parts, sep) ==
  IF Len(parts) = 0 THEN <<>>
  ELSE IF Len(parts) = 1 THEN parts[1]
  ELSE parts[1] \o <<sep>> \o join(Tail(parts), sep)

(***************************************************************************)
(* The two language-code regular expressions                               *)
(***************************************************************************)
\* [a-z], also matching A-Z under the i flag
ClassLower(c, ignoreCase) == IsLower(c) \/ (ignoreCase /\ IsUpper(c))

\* [A-Z], also matching a-z under the i flag
ClassUpper(c, ignoreCase) == IsUpper(c) \/ (ignoreCase /\ IsLower(c))

\* (?<language>[a-z]{2,3})
LanguageGroup(s, ignoreCase) ==
  /\ Len(s) \in 2..3
  /\ \A i \in 1..Len(s) : ClassLower(s[i], ignoreCase)

\* (?<script>[A-Z][a-z]{3})
ScriptGroup(s, ignoreCase) ==
  /\ Len(s) = 4
  /\ ClassUpper(s[1], ignoreCase)
  /\ \A i \in 2..4 : ClassLower(s[i], ignoreCase)

\* (?<region>[A-Z]{2,3}|[0-9]{3})
RegionGroup(s, ignoreCase) ==
  \/ /\ Len(s) \in 2..3
     /\ \A i \in 1..Len(s) : ClassUpper(s[i], ignoreCase)
  \/ /\ Len(s) = 3
     /\ \A i \in 1..3 : IsDigit(s[i])

\* The separator class of the standard expression, [-|_], as a set of characters
StandardSeparators == {"-", "|", "_"}

\* The separator of the ARB expression
ArbSeparators == {"_"}

\* All anchored matches of ^language(sep script)?(sep region)?$ against code, as
\* the named groups of each; an absent group is the empty string.
RegexGroups(code, seps, ignoreCase) ==
  LET n == Len(code)
      Shape(ll, sl, rl) ==
        /\ n = ll + (IF sl = 0 THEN 0 ELSE sl + 1) + (IF rl = 0 THEN 0 ELSE rl + 1)
        /\ LanguageGroup(SubSeq(code, 1, ll), ignoreCase)
        /\ sl # 0 => /\ code[ll + 1] \in seps
                     /\ ScriptGroup(SubSeq(code, ll + 2, ll + 1 + sl), ignoreCase)
        /\ rl # 0 => /\ code[n - rl] \in seps
                     /\ RegionGroup(SubSeq(code, n - rl + 1, n), ignoreCase)
  IN  { [language |-> SubSeq(code, 1, t[1]),
         script   |-> IF t[2] = 0 THEN <<>> ELSE SubSeq(code, t[1] + 2, t[1] + 1 + t[2]),
         region   |-> IF t[3] = 0 THEN <<>> ELSE SubSeq(code, n - t[3] + 1, n)] :
        t \in {u \in (2..3) \X {0, 4} \X {0, 2, 3} : Shape(u[1], u[2], u[3])} }

\* /^(?<language>[a-z]{2,3})([-|_](?<script>[A-Z][a-z]{3}))?([-|_](?<region>[A-Z]{2,3}|[0-9]{3}))?$/i
languageCodeRegex(code) == RegexGroups(code, StandardSeparators, TRUE)

\* /^(?<language>[a-z]{2,3})(_(?<script>[A-Z][a-z]{3}))?(_(?<region>[A-Z]{2,3}|[0-9]{3}))?$/
arbLanguageCodeRegex(code) == RegexGroups(code, ArbSeparators, FALSE)

\* regex.test(s) for the expression selected by isArbFile
regexTest(s, isArbFile) ==
  IF isArbFile THEN arbLanguageCodeRegex(s) # {} ELSE languageCodeRegex(s) # {}

(***************************************************************************)
(* Pure operations of I18nProjectManager on language codes                 *)
(***************************************************************************)
\* The value null of extractLanguageCodeFromFileName
Null == <<"null">>

\* normalizeLanguageCode appending the region without its "-"
normalizeLanguageCode_NoRegionHyphen(code) ==
  LET match == languageCodeRegex(code)
  IN  IF match = {} THEN code
      ELSE LET groups == CHOOSE g \in match : TRUE
               withScript ==
                 IF groups.script # <<>>
                 THEN <<"-", CharToUpper(groups.script[1])>>
                        \o toLowerCase(Tail(groups.script))
                 ELSE <<>>
           IN  toLowerCase(groups.language) \o withScript
                 \o toUpperCase(groups.region)

normalizeLanguageCode(code) ==
  LET match == languageCodeRegex(code)
  IN  IF match = {} THEN code
      ELSE LET groups == CHOOSE g \in match : TRUE
               withScript ==
                 IF groups.script # <<>>
                 THEN <<"-", CharToUpper(groups.script[1])>>
                        \o toLowerCase(Tail(groups.script))
                 ELSE <<>>
               withRegion ==
                 IF groups.region # <<>>
                 THEN <<"-">> \o toUpperCase(groups.region)
                 ELSE <<>>
           IN  toLowerCase(groups.language) \o withScript \o withRegion

\* validateLanguageCode accepting only the hyphen between subtags
validateLanguageCode_HyphenOnly(code) ==
  code # <<>> /\ RegexGroups(code, {"-"}, TRUE) # {}

\* return !!code && this.languageCodeRegex.test(code)
validateLanguageCode(code) == code # <<>> /\ languageCodeRegex(code) # {}

\* parts.slice(i).join("_") for every i, longest first
potentialCodes(parts) ==
  [i \in 1..Len(parts) |-> join(SubSeq(parts, i, Len(parts)), "_")]

\* The for loop: the first potential code the ARB expression matches, else null
firstArbCode(codes) ==
  LET found == {i \in 1..Len(codes) : arbLanguageCodeRegex(codes[i]) # {}}
  IN  IF found = {} THEN Null
      ELSE codes[CHOOSE i \in found : \A j \in found : i <= j]

extractLanguageCodeFromFileName(fileName, isArbFile) ==
  IF isArbFile
  THEN firstArbCode(potentialCodes(split(fileName, "_")))
  ELSE IF languageCodeRegex(fileName) # {} THEN fileName ELSE Null

(***************************************************************************)
(* path module (POSIX) on paths that are sequences of names                *)
(***************************************************************************)
\* path.dirname(p)
dirname(p) == IF Len(p) = 0 THEN <<>> ELSE SubSeq(p, 1, Len(p) - 1)

\* path.basename(p): the last name, "" for the root
lastName(p) == IF Len(p) = 0 THEN <<>> ELSE p[Len(p)]

\* path.extname(p): from the last "." of the last name, "" when there is none,
\* when the only "." is the first character, or for ".."
extname(p) ==
  LET name == lastName(p)
      dots == {i \in 1..Len(name) : name[i] = "."}
      k    == CHOOSE i \in dots : \A j \in dots : j <= i
  IN  IF dots = {} THEN <<>>
      ELSE IF k = 1 THEN <<>>
      ELSE IF name = <<".", ".">> THEN <<>>
      ELSE SubSeq(name, k, Len(name))

\* path.basename(p, ext) of a path with a directory part: the suffix is dropped
\* unless it is the whole name
basename(p, ext) ==
  LET name == lastName(p)
  IN  IF ext # <<>> /\ endsWith(name, ext) /\ Len(ext) < Len(name)
      THEN SubSeq(name, 1, Len(name) - Len(ext))
      ELSE name

\* entryBasename cutting the name at its first dot
entryBasename_FirstDot(name, ext) ==
  IF indexOf(name, <<".">>) = 0 THEN name
  ELSE SubSeq(name, 1, indexOf(name, <<".">>) - 1)

\* path.basename(name, ext) of a bare entry name: "" when the name is the suffix
entryBasename(name, ext) ==
  IF name = ext THEN <<>> ELSE basename(<<name>>, ext)

\* path.join(dir, name) for a name that is one normal segment
pathJoin(dir, name) == Append(dir, name)

DotArb == <<".", "a", "r", "b">>

DotJson == <<".", "j", "s", "o", "n">>

(***************************************************************************)
(* detectProjectStructure                                                  *)
(***************************************************************************)
FolderBased == "folder"

FileBased == "file"

Unknown == "unknown"

\* The absent (undefined) sourceLanguage
Undefined == <<"undefined">>

\* fileBasedOrUnknown taking the parent of the file's directory as basePath
fileBasedOrUnknown_ParentBase(sourceDir, languageCode) ==
  IF languageCode # Null /\ languageCode # <<>>
  THEN [type |-> FileBased, basePath |-> dirname(sourceDir),
        sourceLanguage |-> languageCode]
  ELSE [type |-> Unknown, basePath |-> sourceDir,
        sourceLanguage |-> Undefined]

\* The second and third return of detectProjectStructure
fileBasedOrUnknown(sourceDir, languageCode) ==
  IF languageCode # Null /\ languageCode # <<>>
  THEN [type |-> FileBased, basePath |-> sourceDir,
        sourceLanguage |-> languageCode]
  ELSE [type |-> Unknown, basePath |-> sourceDir,
        sourceLanguage |-> Undefined]

\* detectProjectStructure once the path is taken apart
structureOf(sourceDir, sourceFileName, isArbFile) ==
  IF regexTest(lastName(sourceDir), isArbFile)
  THEN [type |-> FolderBased, basePath |-> dirname(sourceDir),
        sourceLanguage |-> lastName(sourceDir)]
  ELSE fileBasedOrUnknown(sourceDir,
         extractLanguageCodeFromFileName(sourceFileName, isArbFile))

detectProjectStructure(sourceFilePath) ==
  structureOf(dirname(sourceFilePath),
              basename(sourceFilePath, extname(sourceFilePath)),
              extname(sourceFilePath) = DotArb)

(***************************************************************************)
(* The filesystem (fs module)                                              *)
(***************************************************************************)
\* fs.existsSync(p); the root always exists
existsSync(f, p) == p = <<>> \/ p \in DOMAIN f

isDirectory(f, p) == p = <<>> \/ (p \in DOMAIN f /\ f[p] = "dir")

\* fs.readdirSync(dir, {withFileTypes: true}) when it succeeds: the entries
\* of dir as a set; the order of the listing is chosen by the caller's action
dirEntries(f, dir) ==
  { [name |-> lastName(p), kind |-> f[p]] : p \in {q \in DOMAIN f : Len(q) > 0 /\ dirname(q) = dir} }

\* The proper and improper prefixes of p that name something below the root
ancestorsAndSelf(p) == { SubSeq(p, 1, k) : k \in 1..Len(p) }

\* fs.mkdirSync(dir, {recursive: true}): fails when dir or one of its
\* ancestors exists and is not a directory, else creates what is missing
mkdirSync(f, dir) ==
  IF \E q \in ancestorsAndSelf(dir) : q \in DOMAIN f /\ f[q] # "dir"
  THEN [ok |-> FALSE, fs |-> f]
  ELSE [ok |-> TRUE,
        fs |-> [q \in DOMAIN f \cup ancestorsAndSelf(dir) |->
                  IF q \in DOMAIN f THEN f[q] ELSE "dir"]]

(***************************************************************************)
(* detectLanguagesFromProject                                              *)
(***************************************************************************)
\* collationWeight of a comparison by code unit, as sort() without comparator
collationWeight_CodeUnit(c) ==
  IF IsLower(c) THEN 60 + (CHOOSE i \in 1..26 : LowerCase[i] = c)
  ELSE IF IsUpper(c) THEN 20 + (CHOOSE i \in 1..26 : UpperCase[i] = c)
  ELSE IF IsDigit(c) THEN 9 + (CHOOSE i \in 1..10 : Digits[i] = c)
  ELSE IF c = "_" THEN 50
  ELSE IF c = "-" THEN 2
  ELSE IF c = "." THEN 3
  ELSE IF c = "(" THEN 0
  ELSE IF c = ")" THEN 1
  ELSE IF c = "|" THEN 90
  ELSE 0

\* Primary collation weight of a character (root collation): punctuation,
\* then digits, then letters; the two cases of a letter weigh the same
collationWeight(c) ==
  IF IsLower(c) THEN 20 + (CHOOSE i \in 1..26 : LowerCase[i] = c)
  ELSE IF IsUpper(c) THEN 20 + (CHOOSE i \in 1..26 : UpperCase[i] = c)
  ELSE IF IsDigit(c) THEN 9 + (CHOOSE i \in 1..10 : Digits[i] = c)
  ELSE IF c = "_" THEN 1
  ELSE IF c = "-" THEN 2
  ELSE IF c = "." THEN 3
  ELSE IF c = "(" THEN 4
  ELSE IF c = ")" THEN 5
  ELSE IF c = "|" THEN 6
  ELSE 0

RECURSIVE localeCompare(_, _)
\* a.localeCompare(b, undefined, {sensitivity: "base"}): -1, 0 or 1
localeCompare(a, b) ==
  IF Len(a) = 0 /\ Len(b) = 0 THEN 0
  ELSE IF Len(a) = 0 THEN -1
  ELSE IF Len(b) = 0 THEN 1
  ELSE IF collationWeight(a[1]) < collationWeight(b[1]) THEN -1
  ELSE IF collationWeight(a[1]) > collationWeight(b[1]) THEN 1
  ELSE localeCompare(Tail(a), Tail(b))

RECURSIVE insertSorted(_, _)
\* One step of the stable sort: x goes after every element not greater than it
insertSorted(sorted, x) ==
  IF Len(sorted) = 0 THEN <<x>>
  ELSE IF localeCompare(sorted[1], x) <= 0
       THEN <<sorted[1]>> \o insertSorted(Tail(sorted), x)
       ELSE <<x>> \o sorted

RECURSIVE sortLanguages(_)
\* Array.prototype.sort with the localeCompare comparator (stable)
sortLanguages(codes) ==
  IF Len(codes) = 0 THEN <<>>
  ELSE insertSorted(sortLanguages(SubSeq(codes, 1, Len(codes) - 1)), codes[Len(codes)])

RECURSIVE setAdd(_, _)
\* Set.prototype.add of each item in turn; a Set iterates in insertion order
setAdd(set, items) ==
  IF Len(items) = 0 THEN set
  ELSE setAdd(IF \E i \in 1..Len(set) : set[i] = items[1] THEN set
              ELSE Append(set, items[1]),
              Tail(items))

\* Set.prototype.delete
setDelete(set, item) == SelectSeq(set, LAMBDA x : x # item)

\* if (languageCode) languageCodes.add(languageCode)
truthyCode(languageCode) == IF languageCode # <<>> THEN languageCode ELSE Null

\* The body of the FileBased loop for one entry
fileEntryLanguage(entry, fileExtension, isArbFile) ==
  IF entry.kind = "file" /\ endsWith(entry.name, fileExtension)
  THEN truthyCode(extractLanguageCodeFromFileName(
                    entryBasename(entry.name, fileExtension), isArbFile))
  ELSE Null

\* The code one directory entry contributes, Null when it contributes none
entryLanguage(entry, type, isArbFile) ==
  IF type = FolderBased
  THEN IF entry.kind = "dir" /\ regexTest(entry.name, isArbFile)
       THEN entry.name ELSE Null
  ELSE fileEntryLanguage(entry, IF isArbFile THEN DotArb ELSE DotJson, isArbFile)

\* The for loop over the entries of a listing that succeeded
scanEntries(entries, type, isArbFile) ==
  LET codes == [i \in 1..Len(entries) |-> entryLanguage(entries[i], type, isArbFile)]
  IN  setAdd(<<>>, SelectSeq(codes, LAMBDA c : c # Null))

\* scanBasePath without the try/catch: the listing's error propagates
scanBasePath_NoCatch(listing, type, isArbFile) ==
  IF listing.ok
  THEN [threw |-> FALSE, codes |-> scanEntries(listing.entries, type, isArbFile)]
  ELSE [threw |-> TRUE, codes |-> <<>>]

\* try { readdirSync ... } catch { console.warn }: a failed listing adds nothing
scanBasePath(listing, type, isArbFile) ==
  IF listing.ok
  THEN [threw |-> FALSE, codes |-> scanEntries(listing.entries, type, isArbFile)]
  ELSE [threw |-> FALSE, codes |-> <<>>]

\* isArbFile of detectLanguagesFromProject: sourceFilePath.endsWith(".arb")
pathEndsWithArb(sourceFilePath) == endsWith(lastName(sourceFilePath), DotArb)

\* After the scan: drop the source language when there is one, then sort
languagesFound(scan, sourceLanguage) ==
  IF scan.threw THEN [threw |-> TRUE, result |-> <<>>]
  ELSE [threw |-> FALSE,
        result |-> sortLanguages(
                     IF sourceLanguage # Undefined /\ sourceLanguage # <<>>
                     THEN setDelete(scan.codes, sourceLanguage)
                     ELSE scan.codes)]

\* The scan selected by the structure type; Unknown scans nothing
scanFor(structureInfo, listing, isArbFile) ==
  languagesFound(
    IF structureInfo.type = Unknown
    THEN [threw |-> FALSE, codes |-> <<>>]
    ELSE scanBasePath(listing, structureInfo.type, isArbFile),
    structureInfo.sourceLanguage)

\* listing is the outcome of readdirSync(basePath), unused for Unknown
detectLanguagesFromProject(sourceFilePath, listing) ==
  scanFor(detectProjectStructure(sourceFilePath), listing,
          pathEndsWithArb(sourceFilePath))

(***************************************************************************)
(* generateTargetFilePath and getUniqueFilePath                            *)
(***************************************************************************)
\* languageToken replacing hyphens whatever the format
languageToken_AlwaysUnderscore(targetLanguage, isArbFile) ==
  replaceHyphens(targetLanguage)

\* languageCode: hyphens become underscores for an ARB source only
languageToken(targetLanguage, isArbFile) ==
  IF isArbFile THEN replaceHyphens(targetLanguage) ELSE targetLanguage

\* case FolderBased: if (!existsSync(targetDir)) mkdirSync(targetDir, recursive)
ensureTargetDir(f, targetDir) ==
  IF ~existsSync(f, targetDir) THEN mkdirSync(f, targetDir)
  ELSE [ok |-> TRUE, fs |-> f]

\* arbPrefix never keeping a prefix
arbPrefix_None(sourceFileName, sourceLanguage) == <<>>

\* case FileBased, ARB: what precedes the first occurrence of sourceLanguage
arbPrefix(sourceFileName, sourceLanguage) ==
  LET langIndex == IF sourceLanguage # Undefined /\ sourceLanguage # <<>>
                   THEN indexOf(sourceFileName, sourceLanguage) ELSE 0
  IN  IF langIndex > 1 THEN SubSeq(sourceFileName, 1, langIndex - 1) ELSE <<>>

\* case FolderBased, after the directory step: made is its outcome
folderTarget(made, targetDir, fileName) ==
  IF made.ok
  THEN [threw |-> FALSE, fs |-> made.fs, result |-> pathJoin(targetDir, fileName)]
  ELSE [threw |-> TRUE, fs |-> made.fs, result |-> <<>>]

\* fileBasedTarget whose non-ARB branch falls through to the default case
fileBasedTarget_FallThrough(structureInfo, sourceFileName, fileExtension, languageCode) ==
  pathJoin(structureInfo.basePath,
           IF fileExtension = DotArb
           THEN arbPrefix(sourceFileName, structureInfo.sourceLanguage)
                  \o languageCode \o fileExtension
           ELSE sourceFileName \o <<".">> \o languageCode \o fileExtension)

\* case FileBased: <prefix><languageCode>.arb, or <languageCode><extension>
fileBasedTarget(structureInfo, sourceFileName, fileExtension, languageCode) ==
  pathJoin(structureInfo.basePath,
           IF fileExtension = DotArb
           THEN arbPrefix(sourceFileName, structureInfo.sourceLanguage)
                  \o languageCode \o fileExtension
           ELSE languageCode \o fileExtension)

\* unknownTarget joining the name and the language without the "."
unknownTarget_NoDot(sourceDir, sourceFileName, fileExtension, languageCode) ==
  pathJoin(sourceDir, sourceFileName \o languageCode \o fileExtension)

\* default: <sourceFileName>.<languageCode><extension> beside the source
unknownTarget(sourceDir, sourceFileName, fileExtension, languageCode) ==
  pathJoin(sourceDir, sourceFileName \o <<".">> \o languageCode \o fileExtension)

\* The switch of generateTargetFilePath on the structure type
targetFor(f, structureInfo, sourceDir, sourceFileName, fileExtension, languageCode) ==
  IF structureInfo.type = FolderBased
  THEN folderTarget(
         ensureTargetDir(f, pathJoin(structureInfo.basePath, languageCode)),
         pathJoin(structureInfo.basePath, languageCode),
         sourceFileName \o fileExtension)
  ELSE IF structureInfo.type = FileBased
  THEN [threw |-> FALSE, fs |-> f,
        result |-> fileBasedTarget(structureInfo, sourceFileName,
                                   fileExtension, languageCode)]
  ELSE [threw |-> FALSE, fs |-> f,
        result |-> unknownTarget(sourceDir, sourceFileName,
                                 fileExtension, languageCode)]

\* The outcome: whether it threw, the path returned, the filesystem left
generateTargetFilePath(f, sourceFilePath, targetLanguage) ==
  targetFor(f, detectProjectStructure(sourceFilePath), dirname(sourceFilePath),
            basename(sourceFilePath, extname(sourceFilePath)),
            extname(sourceFilePath),
            languageToken(targetLanguage, extname(sourceFilePath) = DotArb))

RECURSIVE decimal(_)
\* `${counter}`: the decimal digits of a positive counter
decimal(n) ==
  IF n < 10 THEN <<Digits[n + 1]>>
  ELSE decimal(n \div 10) \o <<Digits[(n % 10) + 1]>>

\* uniqueCandidate putting the counter after the extension
uniqueCandidate_AfterExtension(filePath, counter) ==
  pathJoin(dirname(filePath),
           basename(filePath, extname(filePath)) \o extname(filePath)
             \o <<" ", "(">> \o decimal(counter) \o <<")">>)

\* path.join(dir, `${baseName} (${counter})${ext}`)
uniqueCandidate(filePath, counter) ==
  pathJoin(dirname(filePath),
           basename(filePath, extname(filePath))
             \o <<" ", "(">> \o decimal(counter) \o <<")">>
             \o extname(filePath))

\* nextCounter forgetting to count
nextCounter_Stuck(counter) == counter

\* counter++
nextCounter(counter) == counter + 1

RECURSIVE firstFreeCandidate(_, _, _)
\* The do/while loop run to its end on a filesystem that does not change
firstFreeCandidate(f, filePath, counter) ==
  IF existsSync(f, uniqueCandidate(filePath, counter))
  THEN firstFreeCandidate(f, filePath, nextCounter(counter))
  ELSE uniqueCandidate(filePath, counter)

\* getUniqueFilePath on a filesystem that does not change during the call
getUniqueFilePath(f, filePath) ==
  IF ~existsSync(f, filePath) THEN filePath
  ELSE firstFreeCandidate(f, filePath, 1)

\* writeFileSync opening the file with the exclusive flag "wx"
writeFileSync_Exclusive(f, p) ==
  IF isDirectory(f, dirname(p)) /\ ~existsSync(f, p)
  THEN [ok |-> TRUE, fs |-> (p :> "file") @@ f]
  ELSE [ok |-> FALSE, fs |-> f]

\* fs.writeFileSync(p, data): creates the file or replaces its content; fails
\* when p is a directory or the directory of p is missing
writeFileSync(f, p) ==
  IF isDirectory(f, dirname(p)) /\ ~isDirectory(f, p)
  THEN [ok |-> TRUE, fs |-> (p :> "file") @@ f]
  ELSE [ok |-> FALSE, fs |-> f]

(***************************************************************************)
(* Inputs                                                                  *)
(***************************************************************************)
\* The project directory
Base == <<<<"i", "1", "8", "n">>>>

\* Source file paths handed to the manager
Sources ==
  { <<<<"i", "1", "8", "n">>, <<"e", "n">>, <<"c", "o", "m", "m", "o", "n", ".", "j", "s", "o", "n">>>>,
    <<<<"i", "1", "8", "n">>, <<"e", "n">>, <<"e", "n", ".", "j", "s", "o", "n">>>>,
    <<<<"i", "1", "8", "n">>, <<"e", "n", "|", "U", "S">>, <<"c", "o", "m", "m", "o", "n", ".", "j", "s", "o", "n">>>>,
    <<<<"i", "1", "8", "n">>, <<"e", "n", "_", "U", "S">>, <<"a", "p", "p", ".", "a", "r", "b">>>>,
    <<<<"i", "1", "8", "n">>, <<"E", "N">>, <<".", "a", "r", "b">>>>,
    <<<<"i", "1", "8", "n">>, <<"F", "R">>, <<"a", "p", "p", "_", "e", "n", ".", "a", "r", "b">>>>,
    <<<<"i", "1", "8", "n">>, <<"e", "n", ".", "j", "s", "o", "n">>>>,
    <<<<"i", "1", "8", "n">>, <<"a", "p", "p", "_", "e", "n", ".", "a", "r", "b">>>>,
    <<<<"i", "1", "8", "n">>, <<"m", "e", "s", "s", "a", "g", "e", "s", ".", "j", "s", "o", "n">>>>,
    <<<<"i", "1", "8", "n">>, <<"a", "p", "p", "_", "e", "n", ".", "j", "s", "o", "n">>>> }

\* Source file paths of the file-per-language and unrecognised layouts
FlatSources ==
  { <<<<"i", "1", "8", "n">>, <<"e", "n", ".", "j", "s", "o", "n">>>>,
    <<<<"i", "1", "8", "n">>, <<"e", "n">>, <<"e", "n", ".", "j", "s", "o", "n">>>>,
    <<<<"i", "1", "8", "n">>, <<"a", "p", "p", "_", "e", "n", ".", "a", "r", "b">>>>,
    <<<<"i", "1", "8", "n">>, <<"e", "n", "_", "U", "S", ".", "a", "r", "b">>>>,
    <<<<"i", "1", "8", "n">>, <<"t", "o", "k", "e", "n", "_", "e", "n", ".", "a", "r", "b">>>>,
    <<<<"i", "1", "8", "n">>, <<"m", "e", "s", "s", "a", "g", "e", "s", ".", "j", "s", "o", "n">>>>,
    <<<<"i", "1", "8", "n">>, <<"m", "a", "i", "n", ".", "a", "r", "b">>>> }

\* Target language strings of the file-per-language and unrecognised layouts
FlatTargetLanguages == { <<"f", "r">>,
    <<"J", "A", "-", "j", "p">> }

\* Target language strings handed to generateTargetFilePath
TargetLanguages == { <<"f", "r">>,
    <<"J", "A", "-", "j", "p">>,
    <<"e", "n">> }

\* Names a directory may be created under
DirNames ==
  { <<"e", "n">>,
    <<"f", "r">>,
    <<"F", "R">>,
    <<"e", "n", "|", "U", "S">>,
    <<"e", "n", "_", "U", "S">>,
    <<"J", "A", "-", "j", "p">>,
    <<"J", "A", "_", "j", "p">>,
    <<"f", "r", ".", "j", "s", "o", "n">> }

\* Names a file may be written under
FileNames ==
  { <<"f", "r">>,
    <<"e", "n", ".", "j", "s", "o", "n">>,
    <<"f", "r", ".", "j", "s", "o", "n">>,
    <<"a", "p", "p", "_", "e", "n", ".", "a", "r", "b">>,
    <<"a", "p", "p", "_", "f", "r", ".", "a", "r", "b">>,
    <<"f", "r", ".", "a", "r", "b">> }

InputLanguages == { <<"e", "n">>,
    <<"E", "N">>,
    <<"z", "h">>,
    <<"f", "i", "l">>,
    <<"x">>,
    <<"e", "n", "g", "l">> }

InputSeparators == {"-", "_", "|", "."}

InputSubtags == { <<"H", "a", "n", "s">>,
    <<"h", "A", "N", "S">>,
    <<"U", "S">>,
    <<"u", "s">>,
    <<"4", "1", "9">>,
    <<"U">> }

\* Names as they occur in localisation projects and in the tests
InputNames ==
  { <<>>,
    <<"i", "n", "v", "a", "l", "i", "d">>,
    <<"i", "n", "v", "a", "l", "i", "d", "-", "c", "o", "d", "e">>,
    <<"1", "2", "3">>,
    <<"m", "e", "s", "s", "a", "g", "e", "s">>,
    <<"a", "p", "p", "_", "e", "n", "_", "U", "S">>,
    <<"m", "y", "_", "a", "p", "p", "_", "f", "r">>,
    <<"a", "p", "p", "_", "z", "h", "_", "H", "a", "n", "s", "_", "C", "N">>,
    <<"f", "i", "_", "f", "i">>,
    <<"e", "n", "_", "f", "r">>,
    <<"a", "b", "_", "e", "n", "_", "U", "S">>,
    <<"e", "n", "_", "U", "S", "_", "C", "N">>,
    <<"e", "n", "_">>,
    <<"_", "e", "n">>,
    <<"a", "p", "p", "_", "_", "e", "n">>,
    <<"a", "p", "p", "_", "E", "N">>,
    <<"a", "p", "p", "-", "e", "n">>,
    <<"e", "n", "-", "H", "a", "n", "s", "_", "4", "1", "9">> }

\* Strings handed to validate, normalize and extract
InputStrings ==
  InputLanguages \cup InputNames
    \cup { l \o <<s>> \o t : l \in InputLanguages, s \in InputSeparators, t \in InputSubtags }
    \cup { l \o <<s>> \o <<"H", "a", "n", "s">> \o <<t>> \o r :
             l \in {<<"z", "h">>, <<"E", "N">>}, s \in InputSeparators,
             t \in InputSeparators, r \in {<<"C", "N">>, <<"c", "n">>, <<"4", "1", "9">>} }

\* Bound on the number of paths the environment puts into the filesystem
MaxEntries == 3

\* Bound on the number of successive applications of normalizeLanguageCode
MaxNormalizeCalls == 2

(***************************************************************************)
(* State machine                                                           *)
(***************************************************************************)
Idle == [op |-> "none"]

\* The processes that run the manager at the same time
Callers == {1, 2}

\* No call in progress
NoCall == [pc |-> "idle"]

\* A freshly created, empty project directory
\* Neither store holds an API key
NoKeys == [secret |-> Undefined, config |-> Undefined]

\* No translate command is in progress
NoCommand ==
  [pc |-> "idle", src |-> <<>>, detectedLanguages |-> <<>>,
   targetLanguages |-> <<>>, targetFilePaths |-> <<>>, made |-> {},
   errorShown |-> FALSE, translateOnlyNewStrings |-> FALSE, tasks |-> <<>>,
   successCount |-> 0, failedLanguages |-> <<>>]

Init ==
  /\ fs = (Base :> "dir")
  /\ arg = <<>>
  /\ last = Idle
  /\ running = [c \in Callers |-> NoCall]
  /\ keys = NoKeys
  /\ command = NoCommand

\* The environment creates a directory (mkdir)
MakeDirectory(p) ==
  /\ Cardinality(DOMAIN fs) < MaxEntries
  /\ ~existsSync(fs, p)
  /\ isDirectory(fs, dirname(p))
  /\ fs' = (p :> "dir") @@ fs
  /\ last' = Idle
  /\ UNCHANGED <<arg, running, keys, command>>

\* The environment writes a new file
WriteFile(p) ==
  /\ Cardinality(DOMAIN fs) < MaxEntries
  /\ ~existsSync(fs, p)
  /\ isDirectory(fs, dirname(p))
  /\ fs' = (p :> "file") @@ fs
  /\ last' = Idle
  /\ UNCHANGED <<arg, running, keys, command>>

\* The environment removes a file or a directory with all it contains
Remove(p) ==
  /\ p \in DOMAIN fs
  /\ fs' = [q \in {r \in DOMAIN fs : ~(Len(r) >= Len(p) /\ SubSeq(r, 1, Len(p)) = p)} |-> fs[q]]
  /\ last' = Idle
  /\ UNCHANGED <<arg, running, keys, command>>

\* All orders in which a listing may enumerate a set of entries
Orderings(entries) ==
  { e \in [1..Cardinality(entries) -> entries] :
      \A i, j \in 1..Cardinality(entries) : i # j => e[i] # e[j] }

\* readdirSync answering from a listing kept since the manager was constructed
readdirSync_AtConstruction(f, dir) ==
  {[ok |-> FALSE, entries |-> <<>>]}
    \cup (IF isDirectory(Base :> "dir", dir)
          THEN {[ok |-> TRUE, entries |-> e] : e \in Orderings(dirEntries(Base :> "dir", dir))}
          ELSE {})

\* The outcomes of fs.readdirSync(dir): it throws when dir is not a directory
\* and may throw on any directory (permission denied, concurrent deletion)
readdirSync(f, dir) ==
  {[ok |-> FALSE, entries |-> <<>>]}
    \cup (IF isDirectory(f, dir)
          THEN {[ok |-> TRUE, entries |-> e] : e \in Orderings(dirEntries(f, dir))}
          ELSE {})

DetectProjectStructure(src) ==
  /\ last' = [op |-> "detectProjectStructure", src |-> src,
              result |-> detectProjectStructure(src)]
  /\ UNCHANGED <<fs, arg, running, keys, command>>

\* The listings detectLanguagesFromProject may be handed for a structure
listingsFor(f, structureInfo) ==
  IF structureInfo.type = Unknown
  THEN {[ok |-> TRUE, entries |-> <<>>]}
  ELSE readdirSync(f, structureInfo.basePath)

DetectLanguagesFromProject(src) ==
  /\ \E listing \in listingsFor(fs, detectProjectStructure(src)) :
       \E out \in {detectLanguagesFromProject(src, listing)} :
         last' = [op |-> "detectLanguagesFromProject", src |-> src,
                  listing |-> listing, threw |-> out.threw,
                  result |-> out.result, before |-> fs]
  /\ UNCHANGED <<fs, arg, running, keys, command>>

GenerateTargetFilePath(src, targetLanguage) ==
  \E out \in {generateTargetFilePath(fs, src, targetLanguage)} :
    /\ Cardinality(DOMAIN out.fs) <= MaxEntries
    /\ fs' = out.fs
    /\ last' = [op |-> "generateTargetFilePath", src |-> src,
                targetLanguage |-> targetLanguage, threw |-> out.threw,
                result |-> out.result, before |-> fs]
    /\ UNCHANGED <<arg, running, keys, command>>

\* fs.writeFileSync(targetFilePath, ...) of performTranslation, on the path the
\* last generateTargetFilePath returned: creates or overwrites the file; fails
\* when the path is a directory or its parent is not one
WriteFileSync ==
  /\ last.op = "generateTargetFilePath"
  /\ ~last.threw
  /\ isDirectory(fs, dirname(last.result))
  /\ ~isDirectory(fs, last.result)
  /\ Cardinality(DOMAIN fs \cup {last.result}) <= MaxEntries
  /\ fs' = (last.result :> "file") @@ fs
  /\ last' = Idle
  /\ UNCHANGED <<arg, running, keys, command>>

Next ==
  \/ \E p \in {Base} \cup {pathJoin(Base, n) : n \in DirNames} : MakeDirectory(p)
  \/ \E p \in {Base} \cup {pathJoin(Base, n) : n \in FileNames} : WriteFile(p)
  \/ \E p \in DOMAIN fs : Remove(p)
  \/ \E src \in Sources : DetectProjectStructure(src)
  \/ \E src \in Sources : DetectLanguagesFromProject(src)
  \/ \E src \in Sources, t \in TargetLanguages : GenerateTargetFilePath(src, t)

Spec == Init /\ [][Next]_vars

(***************************************************************************)
(* A translation run: the target path is generated, the translated file is *)
(* written at it, the languages of the project are detected again          *)
(***************************************************************************)
NextTranslate ==
  \/ \E src \in FlatSources, t \in FlatTargetLanguages : GenerateTargetFilePath(src, t)
  \/ WriteFileSync
  \/ \E src \in FlatSources : DetectLanguagesFromProject(src)
  \/ \E p \in DOMAIN fs : Remove(p)

SpecTranslate == Init /\ [][NextTranslate]_vars

(***************************************************************************)
(* getUniqueFilePath step by step: every existsSync is a step of its own,  *)
(* between two of them other processes and the other caller may act; the   *)
(* caller then writes its translation at the path it was given             *)
(***************************************************************************)
\* Paths handed to getUniqueFilePath
UniquePaths ==
  { <<<<"i", "1", "8", "n">>, <<"f", "r", ".", "j", "s", "o", "n">>>> }

\* Paths another process may write a file at: the paths and their first copies
OtherPaths ==
  UniquePaths \cup { uniqueCandidate(p, n) : p \in UniquePaths, n \in 1..(MaxEntries - 1) }

\* A change of the filesystem is noted in every call that has not written yet
disturbed(r) ==
  [c \in Callers |->
     IF r[c].pc \in {"loop", "returned"} THEN [r[c] EXCEPT !.stable = FALSE]
     ELSE r[c]]

\* if (!fs.existsSync(filePath)) return filePath; ... let counter = 1
uniqueEntered(f, filePath) ==
  [pc       |-> IF existsSync(f, filePath) THEN "loop" ELSE "returned",
   filePath |-> filePath,
   counter  |-> 1,
   checks   |-> <<[path |-> filePath, existed |-> existsSync(f, filePath)]>>,
   result   |-> IF existsSync(f, filePath) THEN Null ELSE filePath,
   stable   |-> TRUE]

\* One turn of do { uniquePath = ...; counter++ } while (fs.existsSync(uniquePath))
uniqueTurn(f, call, uniquePath) ==
  [call EXCEPT
     !.pc      = IF existsSync(f, uniquePath) THEN "loop" ELSE "returned",
     !.counter = nextCounter(call.counter),
     !.checks  = Append(call.checks,
                        [path |-> uniquePath, existed |-> existsSync(f, uniquePath)]),
     !.result  = IF existsSync(f, uniquePath) THEN Null ELSE uniquePath]

\* The call after fs.writeFileSync(outputPath, ...), made its outcome
uniqueWritten(f, call, made) ==
  [pc       |-> IF made.ok THEN "written" ELSE "writeFailed",
   filePath |-> call.filePath,
   checks   |-> call.checks,
   result   |-> call.result,
   stable   |-> call.stable,
   replaced |-> (call.result \in DOMAIN f /\ f[call.result] = "file")]

\* A caller enters getUniqueFilePath(p)
UniqueCall(c, p) ==
  /\ running[c].pc = "idle"
  /\ running' = [running EXCEPT ![c] = uniqueEntered(fs, p)]
  /\ UNCHANGED <<fs, arg, last, keys, command>>

\* More turns than any call takes while files number at most MaxEntries and
\* each caller writes one more
TurnLimit == MaxEntries + 3

\* A caller in the loop builds and checks its next candidate
UniqueLoop(c) ==
  /\ running[c].pc = "loop"
  /\ Len(running[c].checks) <= TurnLimit
  /\ running' = [running EXCEPT ![c] =
                   uniqueTurn(fs, running[c],
                              uniqueCandidate(running[c].filePath, running[c].counter))]
  /\ UNCHANGED <<fs, arg, last, keys, command>>

\* A caller writes its translation at the path getUniqueFilePath returned
WriteTranslation(c) ==
  /\ running[c].pc = "returned"
  /\ \E made \in {writeFileSync(fs, running[c].result)} :
       /\ fs' = made.fs
       /\ running' = [(IF made.fs = fs THEN running ELSE disturbed(running))
                        EXCEPT ![c] = uniqueWritten(fs, running[c], made)]
  /\ UNCHANGED <<arg, last, keys, command>>

\* Another process writes a new file
OtherProcessWrites(p) ==
  /\ Cardinality(DOMAIN fs) < MaxEntries
  /\ ~existsSync(fs, p)
  /\ isDirectory(fs, dirname(p))
  /\ fs' = (p :> "file") @@ fs
  /\ running' = disturbed(running)
  /\ UNCHANGED <<arg, last, keys, command>>

\* Another process removes a file
OtherProcessRemoves(p) ==
  /\ p \in DOMAIN fs
  /\ fs[p] = "file"
  /\ fs' = [q \in DOMAIN fs \ {p} |-> fs[q]]
  /\ running' = disturbed(running)
  /\ UNCHANGED <<arg, last, keys, command>>

NextUnique ==
  \/ \E c \in Callers, p \in UniquePaths : UniqueCall(c, p)
  \/ \E c \in Callers : UniqueLoop(c)
  \/ \E c \in Callers : WriteTranslation(c)
  \/ \E p \in OtherPaths : OtherProcessWrites(p)
  \/ \E p \in DOMAIN fs : OtherProcessRemoves(p)

\* The loop is synchronous code: once entered it goes on
SpecUnique ==
  /\ Init
  /\ [][NextUnique]_vars
  /\ \A c \in Callers : WF_vars(UniqueLoop(c))

(***************************************************************************)
(* generateTargetFilePath step by step: fs.existsSync(targetDir) and       *)
(* fs.mkdirSync(targetDir) are two steps, between which the other caller   *)
(* and other processes may act                                             *)
(***************************************************************************)
\* Sources in a language folder, handed to concurrent callers
FolderSources ==
  { <<<<"i", "1", "8", "n">>, <<"e", "n">>, <<"c", "o", "m", "m", "o", "n", ".", "j", "s", "o", "n">>>>,
    <<<<"i", "1", "8", "n">>, <<"e", "n", "_", "U", "S">>, <<"a", "p", "p", ".", "a", "r", "b">>>> }

\* Paths under the base path at which another process may write a plain file
PlainFilePaths == { <<<<"i", "1", "8", "n">>, <<"f", "r">>>> }

\* targetDir of the FolderBased case
targetDirOf(sourceFilePath, targetLanguage) ==
  pathJoin(detectProjectStructure(sourceFilePath).basePath,
           languageToken(targetLanguage, extname(sourceFilePath) = DotArb))

\* The call once fs.existsSync(targetDir) has answered: it goes on to mkdirSync
\* when the answer is no, else to the return
targetEntered(f, sourceFilePath, targetLanguage) ==
  IF detectProjectStructure(sourceFilePath).type = FolderBased
       /\ ~existsSync(f, targetDirOf(sourceFilePath, targetLanguage))
  THEN [pc |-> "mkdir", src |-> sourceFilePath, targetLanguage |-> targetLanguage,
        result |-> <<>>, dirThere |-> FALSE, dirLeft |-> FALSE]
  ELSE [pc |-> "targetReturned", src |-> sourceFilePath,
        targetLanguage |-> targetLanguage,
        result |-> generateTargetFilePath(f, sourceFilePath, targetLanguage).result,
        dirThere |-> isDirectory(f, targetDirOf(sourceFilePath, targetLanguage)),
        dirLeft |-> isDirectory(f, targetDirOf(sourceFilePath, targetLanguage))]

\* The call once fs.mkdirSync(targetDir, {recursive: true}) has run on f
targetMade(f, call, made) ==
  [pc |-> IF made.ok THEN "targetReturned" ELSE "targetThrew",
   src |-> call.src, targetLanguage |-> call.targetLanguage,
   result |-> folderTarget(made, targetDirOf(call.src, call.targetLanguage),
                           lastName(call.src)).result,
   dirThere |-> isDirectory(f, targetDirOf(call.src, call.targetLanguage)),
   dirLeft |-> isDirectory(made.fs, targetDirOf(call.src, call.targetLanguage))]

\* A caller enters generateTargetFilePath and has existsSync answered
TargetCall(c, src, targetLanguage) ==
  /\ running[c].pc \in {"idle", "targetReturned", "targetThrew"}
  /\ running' = [running EXCEPT ![c] = targetEntered(fs, src, targetLanguage)]
  /\ UNCHANGED <<fs, arg, last, keys, command>>

\* A caller that found no targetDir calls mkdirSync and returns or throws
TargetMkdir(c) ==
  /\ running[c].pc = "mkdir"
  /\ \E made \in {mkdirSync(fs, targetDirOf(running[c].src, running[c].targetLanguage))} :
       /\ fs' = made.fs
       /\ running' = [running EXCEPT ![c] = targetMade(fs, running[c], made)]
  /\ UNCHANGED <<arg, last, keys, command>>

NextMkdir ==
  \/ \E c \in Callers, src \in FolderSources, t \in FlatTargetLanguages :
       TargetCall(c, src, t)
  \/ \E c \in Callers : TargetMkdir(c)
  \/ \E p \in PlainFilePaths : OtherProcessWrites(p)
  \/ \E p \in DOMAIN fs : Remove(p)

SpecMkdir == Init /\ [][NextMkdir]_vars

(***************************************************************************)
(* A project over several translations: target paths are generated, the    *)
(* translated file is saved (in place or as a copy, with or without the    *)
(* filtered-strings file), files come and go, languages are detected       *)
(***************************************************************************)
\* Source files of the project: JSON and ARB named by language, JSON and ARB
\* in language folders
ProjectSources ==
  { <<<<"i", "1", "8", "n">>, <<"e", "n", ".", "j", "s", "o", "n">>>>,
    <<<<"i", "1", "8", "n">>, <<"a", "p", "p", "_", "e", "n", ".", "a", "r", "b">>>>,
    <<<<"i", "1", "8", "n">>, <<"e", "n">>, <<"c", "o", "m", "m", "o", "n", ".", "j", "s", "o", "n">>>>,
    <<<<"i", "1", "8", "n">>, <<"e", "n", "_", "U", "S">>, <<"a", "p", "p", ".", "a", "r", "b">>>> }

\* Target languages of the project
ProjectTargetLanguages == { <<"p", "t", "-", "B", "R">> }

\* path.join(dir, `${base}.filtered${ext}`) of handleFilteredStrings
filteredPath(targetFilePath) ==
  pathJoin(dirname(targetFilePath),
           basename(targetFilePath, extname(targetFilePath))
             \o <<".", "f", "i", "l", "t", "e", "r", "e", "d">>
             \o extname(targetFilePath))

\* outputPathFor never asking for a free name
outputPathFor_AlwaysTarget(f, targetFilePath, translateOnlyNewStrings) ==
  targetFilePath

\* let outputPath = targetFilePath;
\* if (!translateOnlyNewStrings) outputPath = getUniqueFilePath(targetFilePath)
outputPathFor(f, targetFilePath, translateOnlyNewStrings) ==
  IF translateOnlyNewStrings THEN targetFilePath
  ELSE getUniqueFilePath(f, targetFilePath)

\* The synchronous tail of performTranslation once the service has answered
\* with translations: the output path is chosen, the translation is written,
\* and, when strings were filtered out and saveFilteredStrings is on, the
\* filtered strings are written beside it. A failed write throws.
savedTranslation(f, targetFilePath, translateOnlyNewStrings, filtered) ==
  LET outputPath == outputPathFor(f, targetFilePath, translateOnlyNewStrings)
      written == writeFileSync(f, outputPath)
      sidecar == writeFileSync(written.fs, filteredPath(outputPath))
  IN  IF ~written.ok THEN [threw |-> TRUE, fs |-> f, outputPath |-> outputPath]
      ELSE IF filtered
      THEN [threw |-> ~sidecar.ok, fs |-> sidecar.fs, outputPath |-> outputPath]
      ELSE [threw |-> FALSE, fs |-> written.fs, outputPath |-> outputPath]

\* performTranslation saves the answer for the path generated last
SaveTranslation(translateOnlyNewStrings, filtered) ==
  /\ last.op = "generateTargetFilePath"
  /\ ~last.threw
  /\ \E out \in {savedTranslation(fs, last.result, translateOnlyNewStrings, filtered)} :
       /\ Cardinality(DOMAIN out.fs) <= MaxEntries
       /\ fs' = out.fs
       /\ last' = [op |-> "performTranslation", targetFilePath |-> last.result,
                   translateOnlyNewStrings |-> translateOnlyNewStrings,
                   filtered |-> filtered, threw |-> out.threw,
                   outputPath |-> out.outputPath, before |-> fs]
  /\ UNCHANGED <<arg, running, keys, command>>

NextProject ==
  \/ \E src \in ProjectSources, t \in ProjectTargetLanguages :
       GenerateTargetFilePath(src, t)
  \/ \E o \in BOOLEAN, filtered \in BOOLEAN : SaveTranslation(o, filtered)
  \/ \E p \in DOMAIN fs : OtherProcessRemoves(p)
  \/ \E src \in ProjectSources : DetectLanguagesFromProject(src)

SpecProject == Init /\ [][NextProject]_vars

(***************************************************************************)
(* A project of JSON files named <prefix>_<language>.json                  *)
(***************************************************************************)
\* Source files named with a custom prefix before the language code
PrefixedSources ==
  { <<<<"i", "1", "8", "n">>, <<"a", "p", "p", "_", "e", "n", ".", "j", "s", "o", "n">>>>,
    <<<<"i", "1", "8", "n">>, <<"a", "p", "p", "_", "e", "n", "_", "U", "S", ".", "j", "s", "o", "n">>>> }

\* Translations that lie beside them
PrefixedSiblings ==
  { <<<<"i", "1", "8", "n">>, <<"a", "p", "p", "_", "f", "r", ".", "j", "s", "o", "n">>>>,
    <<<<"i", "1", "8", "n">>, <<"a", "p", "p", "_", "z", "h", "_", "H", "a", "n", "s", "_", "C", "N", ".", "j", "s", "o", "n">>>> }

\* The custom prefix of the project's files
PrefixOfProject == <<"a", "p", "p", "_">>

NextPrefixed ==
  \/ \E src \in PrefixedSources : DetectProjectStructure(src)
  \/ \E src \in PrefixedSources : DetectLanguagesFromProject(src)
  \/ \E src \in PrefixedSources, t \in FlatTargetLanguages :
       GenerateTargetFilePath(src, t)
  \/ WriteFileSync
  \/ \E p \in PrefixedSiblings : OtherProcessWrites(p)
  \/ \E p \in DOMAIN fs : OtherProcessRemoves(p)

SpecPrefixed == Init /\ [][NextPrefixed]_vars

(***************************************************************************)
(* ApiKeyManager: the API key in secret storage and in the configuration.  *)
(* Every await of getApiKey and clearApiKey is a step of its own; between  *)
(* two of them the user may edit the setting or set a key, and the other   *)
(* caller may act                                                          *)
(***************************************************************************)
\* API keys
KeyValues == { <<"k", "1">>, <<"k", "2">> }

\* What the apiKey setting may be edited to: a key, nothing, or blanks
SettingValues == KeyValues \cup { Undefined, <<>>, <<" ">> }

RECURSIVE trim(_)
\* s.trim() for a string of letters, digits and spaces
trim(s) ==
  IF s = <<>> THEN s
  ELSE IF Head(s) = " " THEN trim(Tail(s))
  ELSE IF s[Len(s)] = " " THEN trim(SubSeq(s, 1, Len(s) - 1))
  ELSE s

\* keyInConfiguration migrating whenever the setting holds a key
keyInConfiguration_WheneverSet(configApiKey, secureApiKey) ==
  configApiKey # Undefined /\ trim(configApiKey) # <<>>

\* if (configApiKey?.trim() && configApiKey !== secureApiKey)
keyInConfiguration(configApiKey, secureApiKey) ==
  /\ configApiKey # Undefined
  /\ trim(configApiKey) # <<>>
  /\ configApiKey # secureApiKey

\* getApiKey is called: const secureApiKey = await secrets.get(SECRET_KEY)
GetApiKey(c) ==
  /\ running[c].pc \in {"idle", "keyReturned", "keysCleared"}
  /\ running' = [running EXCEPT ![c] =
                   [pc |-> "secretRead", secureApiKey |-> keys.secret]]
  /\ UNCHANGED <<fs, arg, last, keys, command>>

\* The setting is read and compared; without a key to migrate the call
\* returns the key of secret storage
GetApiKeyCompare(c) ==
  /\ running[c].pc = "secretRead"
  /\ running' = [running EXCEPT ![c] =
       IF keyInConfiguration(keys.config, running[c].secureApiKey)
       THEN [pc |-> "store", secureApiKey |-> running[c].secureApiKey,
             configApiKey |-> keys.config]
       ELSE [pc |-> "keyReturned", secureApiKey |-> running[c].secureApiKey,
             configApiKey |-> keys.config, stored |-> FALSE, cleared |-> FALSE,
             result |-> running[c].secureApiKey, configLeft |-> keys.config]]
  /\ UNCHANGED <<fs, arg, last, keys, command>>

\* await secrets.store(SECRET_KEY, configApiKey)
GetApiKeyStore(c) ==
  /\ running[c].pc = "store"
  /\ keys' = [keys EXCEPT !.secret = running[c].configApiKey]
  /\ running' = [running EXCEPT ![c] =
                   [pc |-> "update", secureApiKey |-> running[c].secureApiKey,
                    configApiKey |-> running[c].configApiKey,
                    secretLeft |-> keys'.secret]]
  /\ UNCHANGED <<fs, arg, last, command>>

\* await configuration.update(API_KEY, undefined, Global); return configApiKey
GetApiKeyUpdate(c) ==
  /\ running[c].pc = "update"
  /\ keys' = [keys EXCEPT !.config = Undefined]
  /\ running' = [running EXCEPT ![c] =
                   [pc |-> "keyReturned", secureApiKey |-> running[c].secureApiKey,
                    configApiKey |-> running[c].configApiKey, stored |-> TRUE,
                    cleared |-> TRUE, secretLeft |-> running[c].secretLeft,
                    result |-> running[c].configApiKey,
                    configLeft |-> keys'.config]]
  /\ UNCHANGED <<fs, arg, last, command>>

\* clearApiKey is called: await secrets.delete(SECRET_KEY)
ClearApiKey(c) ==
  /\ running[c].pc \in {"idle", "keyReturned", "keysCleared"}
  /\ keys' = [keys EXCEPT !.secret = Undefined]
  /\ running' = [running EXCEPT ![c] = [pc |-> "deleted", secretLeft |-> keys'.secret]]
  /\ UNCHANGED <<fs, arg, last, command>>

\* clearApiKey: await configuration.update(API_KEY, undefined, Global)
ClearApiKeyUpdate(c) ==
  /\ running[c].pc = "deleted"
  /\ keys' = [keys EXCEPT !.config = Undefined]
  /\ running' = [running EXCEPT ![c] =
                   [pc |-> "keysCleared", secretLeft |-> running[c].secretLeft,
                    configLeft |-> keys'.config]]
  /\ UNCHANGED <<fs, arg, last, command>>

\* setApiKey with the key typed into the input box: if (apiKey) secrets.store
SetApiKey(apiKey) ==
  /\ apiKey # <<>>
  /\ keys.secret # apiKey
  /\ keys' = [keys EXCEPT !.secret = apiKey]
  /\ UNCHANGED <<fs, arg, last, running, command>>

\* The user edits the apiKey setting in the settings UI
UserEditsSetting(value) ==
  /\ keys.config # value
  /\ keys' = [keys EXCEPT !.config = value]
  /\ UNCHANGED <<fs, arg, last, running, command>>

NextKeys ==
  \/ \E c \in Callers : GetApiKey(c)
  \/ \E c \in Callers : GetApiKeyCompare(c)
  \/ \E c \in Callers : GetApiKeyStore(c)
  \/ \E c \in Callers : GetApiKeyUpdate(c)
  \/ \E c \in Callers : ClearApiKey(c)
  \/ \E c \in Callers : ClearApiKeyUpdate(c)
  \/ \E apiKey \in KeyValues : SetApiKey(apiKey)
  \/ \E value \in SettingValues : UserEditsSetting(value)

SpecKeys == Init /\ [][NextKeys]_vars

(***************************************************************************)
(* The translate command: languages are detected, the user selects, the    *)
(* selection is validated, the target paths are generated, the user is     *)
(* asked when a target exists, the languages are translated in parallel    *)
(* and the command waits for all of them. Every await is a step of its     *)
(* own; between two of them other processes change the project.            *)
(***************************************************************************)
\* The files the command is run on
CommandSources ==
  { <<<<"i", "1", "8", "n">>, <<"e", "n">>, <<"c", "o", "m", "m", "o", "n", ".", "j", "s", "o", "n">>>>,
    <<<<"i", "1", "8", "n">>, <<"e", "n", ".", "j", "s", "o", "n">>>> }

\* Language folders and translated files other processes create
CommandFolders == { <<<<"i", "1", "8", "n">>, <<"f", "r">>>>, <<<<"i", "1", "8", "n">>, <<"d", "e">>>> }

CommandFiles ==
  { <<<<"i", "1", "8", "n">>, <<"f", "r">>, <<"c", "o", "m", "m", "o", "n", ".", "j", "s", "o", "n">>>>,
    <<<<"i", "1", "8", "n">>, <<"f", "r", ".", "j", "s", "o", "n">>>>,
    <<<<"i", "1", "8", "n">>, <<"d", "e", ".", "j", "s", "o", "n">>>> }

\* What the user may type as a target language
TypedLanguages == { <<"f", "r">>, <<"d", "e">>, <<"f", "r", "e", "n", "c", "h">> }

\* Entries the project may hold while a command runs
CommandEntries == MaxEntries + 1

\* What translationService.translate may answer: it throws, returns null,
\* a result without translations, translations, or translations with
\* filtered strings
ServiceOutcomes == {"throws", "null", "empty", "translations", "filtered"}

\* What selectTargetLanguage may resolve to, after Array.isArray: undefined,
\* one language, or all the detected languages
Selections(detectedLanguages) ==
  {[cancelled |-> TRUE, languages |-> <<>>]}
    \cup { [cancelled |-> FALSE, languages |-> <<l>>] : l \in TypedLanguages }
    \cup (IF detectedLanguages # <<>>
          THEN {[cancelled |-> FALSE, languages |-> detectedLanguages]} ELSE {})

\* validatedLanguages without the validation loop
validatedLanguages_Unchecked(targetLanguages) == targetLanguages

\* The languages that reach path generation: all of them, or none when the
\* validation loop returns on one that validateLanguageCode rejects
validatedLanguages(targetLanguages) ==
  IF \A i \in 1..Len(targetLanguages) : validateLanguageCode(targetLanguages[i])
  THEN targetLanguages ELSE <<>>

RECURSIVE generateAll(_, _, _)
\* targetLanguages.map((lang) => generateTargetFilePath(fileUri.fsPath, lang))
generateAll(f, src, langs) ==
  IF langs = <<>> THEN [threw |-> FALSE, fs |-> f, paths |-> <<>>]
  ELSE IF generateTargetFilePath(f, src, Head(langs)).threw
  THEN [threw |-> TRUE, fs |-> generateTargetFilePath(f, src, Head(langs)).fs,
        paths |-> <<>>]
  ELSE [threw |-> generateAll(generateTargetFilePath(f, src, Head(langs)).fs,
                              src, Tail(langs)).threw,
        fs |-> generateAll(generateTargetFilePath(f, src, Head(langs)).fs,
                           src, Tail(langs)).fs,
        paths |-> <<generateTargetFilePath(f, src, Head(langs)).result>>
                    \o generateAll(generateTargetFilePath(f, src, Head(langs)).fs,
                                   src, Tail(langs)).paths]

\* The synchronous start of every performTranslation: the target is read when
\* only new strings are translated and it exists (reading a directory throws),
\* then the request is sent
tasksStarted(f, paths, translateOnlyNewStrings) ==
  [i \in 1..Len(paths) |->
    [state |-> IF translateOnlyNewStrings /\ isDirectory(f, paths[i])
               THEN "failed" ELSE "requested",
     targetStrings |-> translateOnlyNewStrings /\ existsSync(f, paths[i])
                         /\ ~isDirectory(f, paths[i]),
     outcome |-> "pending", outputPath |-> Null, replaced |-> FALSE]]

\* The task after the service answered and, with translations, the save
taskSettled(f, task, outcome, saved) ==
  IF outcome \in {"throws", "null"}
  THEN [task EXCEPT !.state = "failed", !.outcome = outcome]
  ELSE IF outcome = "empty"
  THEN [task EXCEPT !.state = "succeeded", !.outcome = outcome]
  ELSE [task EXCEPT !.state = IF saved.threw THEN "failed" ELSE "succeeded",
                    !.outcome = outcome,
                    !.outputPath = saved.outputPath,
                    !.replaced = existsSync(f, saved.outputPath)]

\* commandSettled with a Promise.all that ends on the first failure
commandSettled_FirstFailure(tasks) ==
  \/ \E i \in 1..Len(tasks) : tasks[i].state = "failed"
  \/ \A i \in 1..Len(tasks) : tasks[i].state \in {"succeeded", "failed"}

\* await Promise.all(translationPromises): every task catches its own error,
\* so the promise resolves when all of them have settled
commandSettled(tasks) ==
  \A i \in 1..Len(tasks) : tasks[i].state \in {"succeeded", "failed"}

\* results.filter((r) => !r.success).map((r) => r.language)
failedLanguagesOf(targetLanguages, tasks) ==
  LET failed == SelectSeq([i \in 1..Len(tasks) |-> i],
                          LAMBDA i : tasks[i].state # "succeeded")
  IN  [k \in 1..Len(failed) |-> targetLanguages[failed[k]]]

\* The command is run on a file with the expected extension: the languages of
\* the project are detected and the language selection opens
HandleTranslateCommand(src) ==
  /\ command.pc = "idle"
  /\ \E listing \in listingsFor(fs, detectProjectStructure(src)) :
       command' = [NoCommand EXCEPT
                     !.pc = "selecting", !.src = src,
                     !.detectedLanguages =
                        detectLanguagesFromProject(src, listing).result]
  /\ UNCHANGED <<fs, arg, last, running, keys>>

\* The selection resolves: a cancelled selection ends the command; a language
\* that is not valid ends it with an error message; else the target paths are
\* generated and, when one of them exists, the user is asked, else the
\* translations start
SelectTargetLanguage(selection) ==
  /\ command.pc = "selecting"
  /\ IF selection.cancelled
     THEN /\ command' = [command EXCEPT !.pc = "cancelled"]
          /\ fs' = fs
     ELSE \E out \in {generateAll(fs, command.src, validatedLanguages(selection.languages))} :
            /\ Cardinality(DOMAIN out.fs) <= CommandEntries
            /\ fs' = out.fs
            /\ command' =
                 IF \E i \in 1..Len(selection.languages) :
                      ~validateLanguageCode(selection.languages[i])
                 THEN [command EXCEPT !.pc = "rejected", !.errorShown = TRUE,
                                      !.targetLanguages = selection.languages,
                                      !.targetFilePaths = out.paths,
                                      !.made = DOMAIN out.fs \ DOMAIN fs]
                 ELSE IF out.threw
                 THEN [command EXCEPT !.pc = "failed",
                                      !.targetLanguages = selection.languages,
                                      !.made = DOMAIN out.fs \ DOMAIN fs]
                 ELSE IF \E i \in 1..Len(out.paths) : existsSync(out.fs, out.paths[i])
                 THEN [command EXCEPT !.pc = "asking",
                                      !.targetLanguages = selection.languages,
                                      !.targetFilePaths = out.paths,
                                      !.made = DOMAIN out.fs \ DOMAIN fs]
                 ELSE [command EXCEPT !.pc = "translating",
                                      !.targetLanguages = selection.languages,
                                      !.targetFilePaths = out.paths,
                                      !.made = DOMAIN out.fs \ DOMAIN fs,
                                      !.tasks = tasksStarted(out.fs, out.paths, FALSE)]
  /\ UNCHANGED <<arg, last, running, keys>>

\* askTranslateOnlyNewStringsPreference resolves: "update", "create" or
\* undefined when the prompt is dismissed
AskTranslateOnlyNewStringsPreference(choice) ==
  /\ command.pc = "asking"
  /\ command' =
       IF choice = "dismissed"
       THEN [command EXCEPT !.pc = "cancelled"]
       ELSE [command EXCEPT !.pc = "translating",
                            !.translateOnlyNewStrings = (choice = "update"),
                            !.tasks = tasksStarted(fs, command.targetFilePaths,
                                                   choice = "update")]
  /\ UNCHANGED <<fs, arg, last, running, keys>>

\* The service answers the request of language i and performTranslation runs
\* to its end
TranslationAnswers(i, outcome) ==
  /\ command.pc = "translating"
  /\ i \in 1..Len(command.tasks)
  /\ command.tasks[i].state = "requested"
  /\ \E saved \in {savedTranslation(fs, command.targetFilePaths[i],
                                     command.translateOnlyNewStrings,
                                     outcome = "filtered")} :
       IF outcome \in {"translations", "filtered"}
       THEN /\ Cardinality(DOMAIN saved.fs) <= CommandEntries
            /\ fs' = saved.fs
            /\ command' = [command EXCEPT
                  !.tasks[i] = taskSettled(fs, command.tasks[i], outcome, saved),
                  !.made = command.made \cup (DOMAIN saved.fs \ DOMAIN fs)]
       ELSE /\ fs' = fs
            /\ command' = [command EXCEPT
                  !.tasks[i] = taskSettled(fs, command.tasks[i], outcome, saved)]
  /\ UNCHANGED <<arg, last, running, keys>>

\* Promise.all resolves; the successes and the failed languages are counted
TranslationsSettle ==
  /\ command.pc = "translating"
  /\ commandSettled(command.tasks)
  /\ command' = [command EXCEPT
       !.pc = "done",
       !.successCount = Cardinality({i \in 1..Len(command.tasks) :
                                       command.tasks[i].state = "succeeded"}),
       !.failedLanguages = failedLanguagesOf(command.targetLanguages, command.tasks)]
  /\ UNCHANGED <<fs, arg, last, running, keys>>

\* Another process creates a language folder or a translated file
ProjectEntryAppears(p, kind) ==
  /\ Cardinality(DOMAIN fs) < CommandEntries
  /\ ~existsSync(fs, p)
  /\ isDirectory(fs, dirname(p))
  /\ fs' = (p :> kind) @@ fs
  /\ UNCHANGED <<arg, last, running, keys, command>>

\* Another process removes a file or a folder with all it contains
ProjectEntryDisappears(p) ==
  /\ p \in DOMAIN fs \ {Base}
  /\ fs' = [q \in {r \in DOMAIN fs : ~(Len(r) >= Len(p) /\ SubSeq(r, 1, Len(p)) = p)} |-> fs[q]]
  /\ UNCHANGED <<arg, last, running, keys, command>>

NextCommand ==
  \/ \E src \in CommandSources : HandleTranslateCommand(src)
  \/ \E selection \in Selections(command.detectedLanguages) :
       SelectTargetLanguage(selection)
  \/ \E choice \in {"update", "create", "dismissed"} :
       AskTranslateOnlyNewStringsPreference(choice)
  \/ \E i \in 1..2, outcome \in ServiceOutcomes : TranslationAnswers(i, outcome)
  \/ TranslationsSettle
  \/ \E p \in CommandFolders : ProjectEntryAppears(p, "dir")
  \/ \E p \in CommandFiles : ProjectEntryAppears(p, "file")
  \/ \E p \in DOMAIN fs : ProjectEntryDisappears(p)

SpecCommand == Init /\ [][NextCommand]_vars

(***************************************************************************)
(* The pure language-code operations applied to one input string           *)
(***************************************************************************)
InitGrammar ==
  /\ fs = (Base :> "dir")
  /\ arg \in InputStrings
  /\ last = Idle
  /\ running = [c \in Callers |-> NoCall]
  /\ keys = NoKeys
  /\ command = NoCommand

ValidateLanguageCode ==
  /\ last' = [op |-> "validateLanguageCode", result |-> validateLanguageCode(arg)]
  /\ UNCHANGED <<fs, arg, running, keys, command>>

\* normalizeLanguageCode applied to arg, then to its own result
NormalizeLanguageCode ==
  LET again == last.op = "normalizeLanguageCode"
      input == IF again THEN last.result ELSE arg
      calls == IF again THEN last.calls + 1 ELSE 1
  IN  /\ calls <= MaxNormalizeCalls
      /\ last' = [op |-> "normalizeLanguageCode", input |-> input, calls |-> calls,
                  result |-> normalizeLanguageCode(input)]
      /\ UNCHANGED <<fs, arg, running, keys, command>>

ExtractLanguageCodeFromFileName(isArbFile) ==
  /\ last' = [op |-> "extractLanguageCodeFromFileName", isArbFile |-> isArbFile,
              result |-> extractLanguageCodeFromFileName(arg, isArbFile)]
  /\ UNCHANGED <<fs, arg, running, keys, command>>

NextGrammar ==
  \/ ValidateLanguageCode
  \/ NormalizeLanguageCode
  \/ \E isArbFile \in BOOLEAN : ExtractLanguageCodeFromFileName(isArbFile)

SpecGrammar == InitGrammar /\ [][NextGrammar]_vars

TypeOK ==
  /\ \A p \in DOMAIN fs : fs[p] \in {"file", "dir"} /\ isDirectory(fs, dirname(p))
  /\ last.op \in {"none", "detectProjectStructure", "detectLanguagesFromProject",
                  "generateTargetFilePath", "validateLanguageCode",
                  "normalizeLanguageCode", "extractLanguageCodeFromFileName",
                  "performTranslation"}
  /\ \A c \in Callers :
       running[c].pc \in {"idle", "loop", "returned", "written", "writeFailed",
                          "mkdir", "targetReturned", "targetThrew",
                          "secretRead", "store", "update", "keyReturned",
                          "deleted", "keysCleared"}

(***************************************************************************)
(* The grammar as the specification words it: subtags joined by "-" or "_" *)
(* in the standard grammar (any casing), by "_" only and with strict       *)
(* casing in the ARB grammar                                               *)
(***************************************************************************)
SpecSeparators(isArbFile) == IF isArbFile THEN {"_"} ELSE {"-", "_"}

SpecGrammarGroups(code, isArbFile) ==
  RegexGroups(code, SpecSeparators(isArbFile), ~isArbFile)

SpecGrammarMatches(code, isArbFile) == SpecGrammarGroups(code, isArbFile) # {}

\* Extraction from a base name under the worded grammar: the longest
\* right-aligned suffix of the "_"-segments for ARB, the whole name otherwise
SpecExtract(name, isArbFile) ==
  LET segments == split(name, "_")
      suffixes == { join(SubSeq(segments, i, Len(segments)), "_") : i \in 1..Len(segments) }
      matching == { c \in (IF isArbFile THEN suffixes ELSE {name}) :
                      SpecGrammarMatches(c, isArbFile) }
  IN  IF matching = {} THEN Null
      ELSE CHOOSE c \in matching : \A d \in matching : Len(d) <= Len(c)

(***************************************************************************)
(* Properties                                                              *)
(***************************************************************************)
\* C1: detectProjectStructure decides in priority order: parent directory name
\* matching the active grammar gives FolderBased (basePath the grandparent,
\* sourceLanguage the parent name as spelled); else a code extracted from the
\* base name gives FileBased (basePath the file's directory); else Unknown with
\* no sourceLanguage.
C1_StructurePriority ==
  last.op = "detectProjectStructure" =>
    LET src       == last.src
        isArb     == extname(src) = DotArb
        parent    == lastName(dirname(src))
        extracted == SpecExtract(basename(src, extname(src)), isArb)
    IN  last.result =
          IF SpecGrammarMatches(parent, isArb)
          THEN [type |-> FolderBased, basePath |-> dirname(dirname(src)),
                sourceLanguage |-> parent]
          ELSE IF extracted # Null
          THEN [type |-> FileBased, basePath |-> dirname(src),
                sourceLanguage |-> extracted]
          ELSE [type |-> Unknown, basePath |-> dirname(src),
                sourceLanguage |-> Undefined]

\* C2: validateLanguageCode(code) is true iff code fully matches the grammar
\* (subtags separated only by "-" or "_" in the standard grammar), false for
\* the empty string and any other string.
C2_ValidateIffGrammar ==
  last.op = "validateLanguageCode" =>
    (last.result <=> SpecGrammarMatches(arg, FALSE))

\* C3: normalizeLanguageCode lowercases the language, title-cases the script,
\* uppercases the region and joins them with "-" when the code matches the
\* standard grammar, and returns the input unchanged when it does not.
C3_NormalizeByGrammar ==
  last.op = "normalizeLanguageCode" /\ last.calls = 1 =>
    LET parses == SpecGrammarGroups(arg, FALSE)
    IN  IF parses = {} THEN last.result = arg
        ELSE \E g \in parses :
               last.result =
                 toLowerCase(g.language)
                   \o (IF g.script = <<>> THEN <<>>
                       ELSE <<"-", CharToUpper(g.script[1])>>
                              \o toLowerCase(SubSeq(g.script, 2, 4)))
                   \o (IF g.region = <<>> THEN <<>>
                       ELSE <<"-">> \o toUpperCase(g.region))

\* C4: on every code validateLanguageCode accepts, normalizeLanguageCode is
\* idempotent (a second application changes nothing) and its result is again
\* accepted by validateLanguageCode.
C4_NormalizeIdempotent ==
  last.op = "normalizeLanguageCode" /\ validateLanguageCode(arg) =>
    /\ validateLanguageCode(last.result)
    /\ last.calls >= 2 => last.result = last.input

\* C4 witness: a valid code that the first application changed has been
\* normalised a second time.
C4_Witness ==
  /\ last.op = "normalizeLanguageCode"
  /\ last.calls = 2
  /\ validateLanguageCode(arg)
  /\ last.input # arg

\* C5: for an ARB base name extractLanguageCodeFromFileName returns the longest
\* right-aligned suffix of its "_"-segments that matches the ARB grammar, null
\* iff none matches; for a non-ARB name the whole name iff it matches the
\* standard grammar, else null.
C5_ExtractLongestSuffix ==
  last.op = "extractLanguageCodeFromFileName" =>
    last.result = SpecExtract(arg, last.isArbFile)

\* The names of a listing's entries of one kind
ListedNames(listing, kind) ==
  { listing.entries[i].name :
      i \in {j \in 1..Len(listing.entries) : listing.entries[j].kind = kind} }

\* a is a contiguous fragment of name
IsFragment(a, name) ==
  \E i \in 1..Len(name) : \E j \in i..Len(name) : SubSeq(name, i, j) = a

\* Case-insensitive comparison: a sorts no later than b once case is folded
CaseInsensitiveLeq(a, b) == localeCompare(toLowerCase(a), toLowerCase(b)) <= 0

\* C6: the list detectLanguagesFromProject returns has no duplicate, never holds
\* the detected source language, is non-decreasing under case-insensitive
\* comparison, and spells every entry exactly as the directory name or the
\* file-name fragment it was read from.
C6_ListWellFormed ==
  last.op = "detectLanguagesFromProject" =>
    LET r == last.result
        n == Len(last.result)
    IN  /\ \A i, j \in 1..n : i # j => r[i] # r[j]
        /\ \A i \in 1..n : r[i] # detectProjectStructure(last.src).sourceLanguage
        /\ \A i, j \in 1..n : i < j => CaseInsensitiveLeq(r[i], r[j])
        /\ \A i \in 1..n :
             \/ r[i] \in ListedNames(last.listing, "dir")
             \/ \E name \in ListedNames(last.listing, "file") : IsFragment(r[i], name)

\* C6 witness: two languages were read in one order and returned in the other,
\* the one returned last spelled with an upper-case letter.
C6_Witness ==
  /\ last.op = "detectLanguagesFromProject"
  /\ last.listing.ok
  /\ Len(last.listing.entries) = 2
  /\ Len(last.result) = 2
  /\ last.result[2] = last.listing.entries[1].name
  /\ toLowerCase(last.result[2]) # last.result[2]

\* C7: minus the source language, the set returned is: for FolderBased the
\* names of the subdirectories of basePath that match the active grammar; for
\* FileBased the codes extracted from the files under basePath that carry the
\* active format's extension; for Unknown empty.
C7_ExactlyTheLanguages ==
  last.op = "detectLanguagesFromProject" /\ last.listing.ok /\ ~last.threw =>
    LET src       == last.src
        isArb     == extname(src) = DotArb
        extension == IF isArb THEN DotArb ELSE DotJson
        structure == detectProjectStructure(src)
        dirs      == ListedNames(last.listing, "dir")
        files     == ListedNames(last.listing, "file")
        expected  ==
          IF structure.type = FolderBased
          THEN { d \in dirs : SpecGrammarMatches(d, isArb) }
          ELSE IF structure.type = FileBased
          THEN { SpecExtract(basename(<<f>>, extension), isArb) :
                   f \in { g \in files : extname(<<g>>) = extension } } \ {Null}
          ELSE {}
    IN  { last.result[i] : i \in 1..Len(last.result) }
          = expected \ {structure.sourceLanguage}

\* C8: detectLanguagesFromProject never raises and never changes the
\* filesystem; when listing basePath fails it returns the empty list.
C8_ScanFailureIsEmpty ==
  last.op = "detectLanguagesFromProject" =>
    /\ ~last.threw
    /\ fs = last.before
    /\ ~last.listing.ok => last.result = <<>>

\* C8 witness: the listing of a base path that holds a detectable language
\* failed during the call.
C8_Witness ==
  /\ last.op = "detectLanguagesFromProject"
  /\ ~last.listing.ok
  /\ detectProjectStructure(last.src).type # Unknown
  /\ \E listing \in readdirSync(fs, detectProjectStructure(last.src).basePath) :
       /\ listing.ok
       /\ detectLanguagesFromProject(last.src, listing).result # <<>>

\* C9: for a FolderBased source generateTargetFilePath returns
\* basePath/<token>/<source file name>, the token being the target language
\* unchanged for a non-ARB source and with every "-" replaced by "_" for ARB.
C9_FolderTargetPath ==
  last.op = "generateTargetFilePath" /\ ~last.threw
    /\ detectProjectStructure(last.src).type = FolderBased =>
      LET t     == last.targetLanguage
          token == IF extname(last.src) = DotArb
                   THEN [i \in 1..Len(t) |-> IF t[i] = "-" THEN "_" ELSE t[i]]
                   ELSE t
      IN  last.result =
            dirname(dirname(last.src)) \o <<token>> \o <<lastName(last.src)>>

\* C9 witness: a path was generated for an ARB source in a language folder and
\* a target language holding a hyphen.
C9_Witness ==
  /\ last.op = "generateTargetFilePath"
  /\ ~last.threw
  /\ detectProjectStructure(last.src).type = FolderBased
  /\ extname(last.src) = DotArb
  /\ \E i \in 1..Len(last.targetLanguage) : last.targetLanguage[i] = "-"

\* C10: for a FolderBased source, whenever generateTargetFilePath returns, the
\* directory basePath/<token> exists as a directory, from every prior
\* filesystem state.
C10_TargetDirExists ==
  last.op = "generateTargetFilePath" /\ ~last.threw
    /\ detectProjectStructure(last.src).type = FolderBased =>
      isDirectory(fs, dirname(last.result))

\* The first position at which code occurs in name, 0 when it does not occur
FirstOccurrence(name, code) ==
  LET at == {i \in 1..(Len(name) - Len(code) + 1) :
               \A k \in 1..Len(code) : name[i + k - 1] = code[k]}
  IN  IF at = {} THEN 0 ELSE CHOOSE i \in at : \A j \in at : i <= j

\* The token of a target language: "-" becomes "_" for an ARB source only
SpecToken(src, t) ==
  IF extname(src) = DotArb
  THEN [i \in 1..Len(t) |-> IF t[i] = "-" THEN "_" ELSE t[i]]
  ELSE t

\* C11: for a FileBased ARB source generateTargetFilePath returns, in the
\* source's directory, <prefix><token>.arb, the prefix being what precedes the
\* first occurrence of the detected source language in the source base name
\* (empty when the code starts the name).
C11_ArbPrefixFirstOccurrence ==
  last.op = "generateTargetFilePath"
    /\ detectProjectStructure(last.src).type = FileBased
    /\ extname(last.src) = DotArb =>
      LET name == basename(last.src, DotArb)
          k    == FirstOccurrence(name, detectProjectStructure(last.src).sourceLanguage)
      IN  /\ ~last.threw
          /\ last.result =
               dirname(last.src)
                 \o << (IF k > 1 THEN SubSeq(name, 1, k - 1) ELSE <<>>)
                         \o SpecToken(last.src, last.targetLanguage) \o DotArb >>

\* C11 witness: a path was generated for a FileBased ARB source whose name
\* carries a prefix before the language code, for a target language holding "-".
C11_Witness ==
  /\ last.op = "generateTargetFilePath"
  /\ detectProjectStructure(last.src).type = FileBased
  /\ extname(last.src) = DotArb
  /\ FirstOccurrence(basename(last.src, DotArb),
                     detectProjectStructure(last.src).sourceLanguage) > 1
  /\ \E i \in 1..Len(last.targetLanguage) : last.targetLanguage[i] = "-"

\* C12: for a FileBased ARB source whose base name is P followed by its
\* extracted language code C, generateTargetFilePath returns <dir>/P<token>.arb:
\* exactly the trailing code is replaced and the whole prefix P is kept,
\* whatever characters P contains.
C12_ArbPrefixPreserved ==
  last.op = "generateTargetFilePath"
    /\ detectProjectStructure(last.src).type = FileBased
    /\ extname(last.src) = DotArb =>
      LET name == basename(last.src, DotArb)
          C    == SpecExtract(name, TRUE)
          P    == SubSeq(name, 1, Len(name) - Len(C))
      IN  /\ C # Null
          /\ last.result =
               dirname(last.src)
                 \o << P \o SpecToken(last.src, last.targetLanguage) \o DotArb >>

\* C13: for a FileBased non-ARB source generateTargetFilePath returns
\* <directory of the source>/<target language as given><extension>; nothing of
\* the source file name is kept.
C13_FileBasedReplacesName ==
  last.op = "generateTargetFilePath"
    /\ detectProjectStructure(last.src).type = FileBased
    /\ extname(last.src) # DotArb =>
      /\ ~last.threw
      /\ last.result =
           dirname(last.src) \o << last.targetLanguage \o extname(last.src) >>

\* C13 witness: a path was generated for a FileBased JSON source and a target
\* language holding a hyphen.
C13_Witness ==
  /\ last.op = "generateTargetFilePath"
  /\ detectProjectStructure(last.src).type = FileBased
  /\ extname(last.src) = DotJson
  /\ \E i \in 1..Len(last.targetLanguage) : last.targetLanguage[i] = "-"

\* The source's name without extension is itself a language code of its format
NameIsLanguageCode(src) ==
  SpecGrammarMatches(basename(src, extname(src)), extname(src) = DotArb)

\* The language is identified from the file name and the target is
\* <target language code><extension> in the folder of the source
SavedBesideSource(src, t, result) ==
  /\ detectProjectStructure(src).type = FileBased
  /\ detectProjectStructure(src).sourceLanguage = basename(src, extname(src))
  /\ result = dirname(src) \o << SpecToken(src, t) \o extname(src) >>

\* C14 as stated: whenever the source's name without extension is itself a
\* language code, the language is identified from the file name and the
\* translated file is <target language code><extension> in the folder of the
\* source, whatever the name of the containing folder.
C14_NameIsCodeAnyFolder ==
  last.op = "generateTargetFilePath" /\ ~last.threw /\ NameIsLanguageCode(last.src) =>
    SavedBesideSource(last.src, last.targetLanguage, last.result)

\* C14 amended: whenever the source's name without extension is itself a
\* language code and the containing folder is not itself taken for a language
\* folder (FolderBased has priority), the language is identified from the file
\* name and the translated file is <target language code><extension> in the
\* folder of the source.
C14_NameIsCodeUnlessLanguageFolder ==
  last.op = "generateTargetFilePath" /\ NameIsLanguageCode(last.src)
    /\ detectProjectStructure(last.src).type # FolderBased =>
      /\ ~last.threw
      /\ SavedBesideSource(last.src, last.targetLanguage, last.result)

\* C14 witness: a path was generated for an ARB source named by a language code
\* with a region, in a folder that is no language folder.
C14_Witness ==
  /\ last.op = "generateTargetFilePath"
  /\ NameIsLanguageCode(last.src)
  /\ detectProjectStructure(last.src).type # FolderBased
  /\ extname(last.src) = DotArb
  /\ Len(basename(last.src, DotArb)) > 3

\* C15: for an Unknown structure generateTargetFilePath returns
\* <directory of the source>/<source base name>.<token><extension> and creates
\* nothing, and detectLanguagesFromProject returns the empty list, before and
\* after a file is written at that path.
C15_UnknownFallback ==
  /\ last.op = "generateTargetFilePath"
       /\ detectProjectStructure(last.src).type = Unknown =>
         /\ ~last.threw
         /\ fs = last.before
         /\ last.result =
              dirname(last.src)
                \o << basename(last.src, extname(last.src)) \o <<".">>
                        \o SpecToken(last.src, last.targetLanguage)
                        \o extname(last.src) >>
  /\ last.op = "detectLanguagesFromProject"
       /\ detectProjectStructure(last.src).type = Unknown =>
         /\ ~last.threw
         /\ last.result = <<>>

\* C15 witness: the languages of an Unknown source were detected while a file
\* written at a path generated for that source exists.
C15_Witness ==
  /\ last.op = "detectLanguagesFromProject"
  /\ detectProjectStructure(last.src).type = Unknown
  /\ \E t \in FlatTargetLanguages :
       /\ generateTargetFilePath(fs, last.src, t).result \in DOMAIN fs
       /\ fs[generateTargetFilePath(fs, last.src, t).result] = "file"

\* The calls of getUniqueFilePath that have returned
Returned(c) == running[c].pc \in {"returned", "written", "writeFailed"}

\* <dir>/<base> (n)<ext> of a path
SpecCopyName(p, n) ==
  dirname(p) \o << basename(p, extname(p)) \o <<" ", "(">> \o decimal(n)
                     \o <<")">> \o extname(p) >>

\* C16: getUniqueFilePath(p) returns p when p does not exist; otherwise it
\* checks <dir>/<base> (n)<ext> for n = 1, 2, ... in turn, each at the moment it
\* is considered, and returns the first that did not exist when checked; the
\* result keeps the directory and the extension of p.
C16_FirstFreeCopyName ==
  \A c \in Callers :
    Returned(c) =>
      LET p      == running[c].filePath
          checks == running[c].checks
          k      == Len(running[c].checks)
      IN  /\ checks[1].path = p
          /\ \A i \in 2..k : checks[i].path = SpecCopyName(p, i - 1)
          /\ \A i \in 1..(k - 1) : checks[i].existed
          /\ ~checks[k].existed
          /\ running[c].result = checks[k].path
          /\ dirname(running[c].result) = dirname(p)
          /\ extname(running[c].result) = extname(p)

\* C16 witness: a call returned the second copy name of a path with an
\* extension while the filesystem changed during the call.
C16_Witness ==
  \E c \in Callers :
    /\ running[c].pc = "returned"
    /\ Len(running[c].checks) = 3
    /\ extname(running[c].filePath) # <<>>
    /\ ~running[c].stable

\* C17: getUniqueFilePath changes nothing in the filesystem; calls with the same
\* path on the same unchanged filesystem return the same path; and a call on a
\* filesystem that stays unchanged terminates.
C17_ReadOnlyIdempotentTerminates ==
  /\ [][(\E c \in Callers : UniqueLoop(c) \/ \E p \in UniquePaths : UniqueCall(c, p))
          => fs' = fs]_vars
  /\ [](\A c, d \in Callers :
          /\ running[c].pc = "returned" /\ running[c].stable
          /\ running[d].pc = "returned" /\ running[d].stable
          /\ running[c].filePath = running[d].filePath
          => running[c].result = running[d].result)
  /\ \A c \in Callers :
       (running[c].pc = "loop" /\ running[c].stable)
         ~> (running[c].pc # "loop" \/ ~running[c].stable)

\* C17 witness: two calls with the same existing path, neither disturbed, have
\* both returned after more than one turn of the loop.
C17_Witness ==
  /\ \A c \in Callers :
       /\ running[c].pc = "returned"
       /\ running[c].stable
       /\ Len(running[c].checks) >= 3
  /\ running[1].filePath = running[2].filePath


\* C19: getUniqueFilePath reserves nothing: the path it returned is not created
\* by the call; two callers that ask for the same existing path before either
\* has written are given the same path; and the caller's write goes through
\* and replaces a file that appeared at that path in the meantime.
C19_AdvisoryNotReservation ==
  /\ \A c \in Callers :
       running[c].pc = "returned" /\ running[c].stable =>
         ~existsSync(fs, running[c].result)
  /\ \A c, d \in Callers :
       /\ running[c].pc = "returned" /\ running[c].stable
       /\ running[d].pc = "returned" /\ running[d].stable
       /\ running[c].filePath = running[d].filePath
       /\ running[c].checks[1].existed
       => running[c].result = running[d].result
  /\ \A c \in Callers :
       running[c].pc \in {"written", "writeFailed"} /\ running[c].replaced =>
         /\ running[c].pc = "written"
         /\ ~running[c].stable

\* C19 witness: both callers were given the same copy name for the same
\* existing path, and the second to write replaced the file of the first.
C19_Witness ==
  \E c, d \in Callers :
    /\ c # d
    /\ running[c].pc = "written" /\ running[d].pc = "written"
    /\ running[c].checks[1].existed
    /\ running[c].filePath = running[d].filePath
    /\ running[c].result = running[d].result
    /\ ~running[c].replaced
    /\ running[d].replaced


\* C18: for a FolderBased source, invocations of generateTargetFilePath for the
\* same or different target languages, repeated or with their existence check
\* and directory creation interleaved in any order, each return the path they
\* return when run alone, raise no error when the directory already exists,
\* and leave the requested language directory existing.
C18_MkdirInterleavingSafe ==
  \A c \in Callers :
    /\ running[c].pc = "targetThrew" => ~running[c].dirThere
    /\ running[c].pc = "targetReturned"
         /\ detectProjectStructure(running[c].src).type = FolderBased =>
           /\ running[c].result =
                dirname(dirname(running[c].src))
                  \o << SpecToken(running[c].src, running[c].targetLanguage) >>
                  \o << lastName(running[c].src) >>
           /\ running[c].dirLeft


\* The codes the entries that basePath holds in filesystem f contribute for src
FreshCodes(f, src) ==
  { entryLanguage(e, detectProjectStructure(src).type, pathEndsWithArb(src)) :
      e \in dirEntries(f, detectProjectStructure(src).basePath) } \ {Null}

\* C20: nothing is kept between calls: the list detectLanguagesFromProject
\* returns holds exactly the languages the filesystem holds at the time of the
\* call (a folder or file added since the last call is in it, a removed one is
\* not), and generateTargetFilePath decides on the filesystem of the time of
\* the call, creating the language folder (and its missing ancestors) exactly
\* when it is absent then.
C20_RecomputedEveryCall ==
  /\ last.op = "detectLanguagesFromProject" =>
       /\ fs = last.before
       /\ last.listing.ok /\ detectProjectStructure(last.src).type # Unknown =>
            { last.result[i] : i \in 1..Len(last.result) }
              = FreshCodes(fs, last.src) \ {detectProjectStructure(last.src).sourceLanguage}
  /\ last.op = "generateTargetFilePath" /\ ~last.threw
       /\ detectProjectStructure(last.src).type = FolderBased =>
         /\ existsSync(last.before, dirname(last.result)) => fs = last.before
         /\ ~existsSync(last.before, dirname(last.result)) =>
              /\ DOMAIN fs = DOMAIN last.before
                               \cup { SubSeq(last.result, 1, k) : k \in 1..(Len(last.result) - 1) }
              /\ \A p \in DOMAIN fs :
                   fs[p] = IF p \in DOMAIN last.before THEN last.before[p] ELSE "dir"

\* C20 witness: a call lists a language that was added to the project after the
\* manager was constructed, next to a file that contributes none.
C20_Witness ==
  /\ last.op = "detectLanguagesFromProject"
  /\ last.listing.ok
  /\ Len(last.result) = 1
  /\ Cardinality(DOMAIN fs) = 3

\* C26: every language code detectLanguagesFromProject returns, for JSON and
\* ARB sources and for both structure kinds, is accepted by
\* validateLanguageCode, so "Translate to All Languages" is never rejected by
\* the validation of the command.
C26_DetectedCodesAreValid ==
  last.op = "detectLanguagesFromProject" =>
    \A i \in 1..Len(last.result) : validateLanguageCode(last.result[i])

\* C26 witness: a detection for an ARB source returns a code spelled with an
\* underscore.
C26_Witness ==
  /\ last.op = "detectLanguagesFromProject"
  /\ pathEndsWithArb(last.src)
  /\ \E i \in 1..Len(last.result) : indexOf(last.result[i], <<"_">>) > 0

\* A name the extension gives to a by-product: a collision copy "<name> (n)<ext>"
\* or a filtered-strings file "<name>.filtered<ext>"
ByProductName(name) ==
  \/ indexOf(name, <<" ", "(">>) > 0
  \/ indexOf(name, <<".", "f", "i", "l", "t", "e", "r", "e", "d">>) > 0

\* Filesystem f with its by-products taken away
WithoutByProducts(f) ==
  [p \in {q \in DOMAIN f : f[q] = "dir" \/ ~ByProductName(lastName(q))} |-> f[p]]

\* C28: the by-products of the extension never pollute detection: with a
\* collision copy or a filtered-strings file in the project,
\* detectLanguagesFromProject returns for every source, JSON or ARB, what it
\* returns without them.
C28_ByProductsNotDetected ==
  /\ last.op = "detectLanguagesFromProject" /\ last.listing.ok
       /\ detectProjectStructure(last.src).type # Unknown =>
         { last.result[i] : i \in 1..Len(last.result) }
           = FreshCodes(WithoutByProducts(last.before), last.src)
               \ {detectProjectStructure(last.src).sourceLanguage}
  /\ \A src \in ProjectSources :
       FreshCodes(fs, src) = FreshCodes(WithoutByProducts(fs), src)

\* C28 witness: a detection over a folder that holds a by-product beside a
\* translation returns that translation's language.
C28_Witness ==
  /\ last.op = "detectLanguagesFromProject"
  /\ last.listing.ok
  /\ Len(last.result) = 1
  /\ \E p \in DOMAIN last.before :
       /\ last.before[p] = "file"
       /\ ByProductName(lastName(p))
       /\ dirname(p) = detectProjectStructure(last.src).basePath

\* The language code a prefixed name carries: what follows the project's prefix
CodeAfterPrefix(p) ==
  SubSeq(basename(p, extname(p)), Len(PrefixOfProject) + 1,
         Len(basename(p, extname(p))))

\* C21: JSON files named with a custom prefix before the language code form a
\* file-based structure: the language code is identified from the file name,
\* the prefixed files beside the source are reported as detected languages, and
\* the translation is saved in the source's folder under the target language's
\* file name (the code alone, or the code after the prefix).
C21_PrefixedJsonIsFileBased ==
  /\ last.op = "detectProjectStructure" =>
       /\ last.result.type = FileBased
       /\ last.result.basePath = dirname(last.src)
       /\ last.result.sourceLanguage = CodeAfterPrefix(last.src)
  /\ last.op = "detectLanguagesFromProject" /\ last.listing.ok =>
       \A p \in PrefixedSiblings \ {last.src} :
         existsSync(last.before, p) =>
           \E i \in 1..Len(last.result) : last.result[i] = CodeAfterPrefix(p)
  /\ last.op = "generateTargetFilePath" =>
       /\ ~last.threw
       /\ dirname(last.result) = dirname(last.src)
       /\ lastName(last.result)
            \in { last.targetLanguage \o DotJson,
                  PrefixOfProject \o last.targetLanguage \o DotJson }

\* C27: path generation and detection round-trip: for a source in a FolderBased
\* or FileBased structure and a target language whose token matches the active
\* grammar and differs from the source language, once a file lies at the path p
\* that generateTargetFilePath returns, detectProjectStructure(p) has the type
\* and basePath of the source with the token as sourceLanguage, and
\* detectLanguagesFromProject of the source lists the token.
C27_GenerateDetectRoundTrip ==
  last.op = "detectLanguagesFromProject" /\ last.listing.ok
    /\ detectProjectStructure(last.src).type \in {FolderBased, FileBased} =>
      \A t \in FlatTargetLanguages :
        /\ SpecGrammarMatches(SpecToken(last.src, t), extname(last.src) = DotArb)
        /\ SpecToken(last.src, t) # detectProjectStructure(last.src).sourceLanguage
        /\ ~generateTargetFilePath(last.before, last.src, t).threw
        /\ generateTargetFilePath(last.before, last.src, t).result \in DOMAIN last.before
        /\ last.before[generateTargetFilePath(last.before, last.src, t).result] = "file"
        => /\ detectProjectStructure(
                generateTargetFilePath(last.before, last.src, t).result)
               = [type |-> detectProjectStructure(last.src).type,
                  basePath |-> detectProjectStructure(last.src).basePath,
                  sourceLanguage |-> SpecToken(last.src, t)]
           /\ \E i \in 1..Len(last.result) : last.result[i] = SpecToken(last.src, t)

\* C25: getApiKey: when the configuration holds a non-blank key that differs
\* from the one read from secret storage, the call stores the configuration
\* key in secret storage, clears the configuration value and returns the
\* configuration key; otherwise it returns the key read from secret storage
\* (undefined when none) and changes neither store. clearApiKey removes the
\* key from secret storage and from the configuration.
C25_ConfigurationKeyTakesPrecedence ==
  \A c \in Callers :
    /\ running[c].pc = "keyReturned" =>
         IF /\ running[c].configApiKey \notin {Undefined, <<>>, <<" ">>}
            /\ running[c].configApiKey # running[c].secureApiKey
         THEN /\ running[c].stored
              /\ running[c].secretLeft = running[c].configApiKey
              /\ running[c].cleared
              /\ running[c].configLeft = Undefined
              /\ running[c].result = running[c].configApiKey
         ELSE /\ ~running[c].stored
              /\ ~running[c].cleared
              /\ running[c].result = running[c].secureApiKey
    /\ running[c].pc = "keysCleared" =>
         /\ running[c].secretLeft = Undefined
         /\ running[c].configLeft = Undefined

\* C25 witness: a call has replaced an older stored key by the key of the
\* configuration while the other caller has cleared both stores.
C25_Witness ==
  /\ running[1].pc = "keyReturned"
  /\ running[1].stored
  /\ running[1].secureApiKey \in KeyValues
  /\ running[1].result # running[1].secureApiKey
  /\ running[2].pc = "keysCleared"

\* C30: after any completed getApiKey call, whatever secret storage and the
\* configuration held, the configuration no longer holds a non-blank API key.
C30_NoKeyLeftInConfiguration ==
  \A c \in Callers :
    running[c].pc = "keyReturned" => trim(running[c].configLeft) \in {Undefined, <<>>}

\* C22: when a target file exists the user's choice governs the write: with
\* "Translate Only New Strings" the result is written exactly at the generated
\* target path, and targetStrings are sent in that mode only; with
\* "Create New File", and whenever translateOnlyNewStrings is false, the result
\* is written at the target path when it is free and else at a copy name, so
\* no file that existed immediately before the write is overwritten by a
\* translation, in any interleaving of the per-language translations.
C22_ChoiceGovernsTheWrite ==
  \A i \in 1..Len(command.tasks) :
    /\ command.tasks[i].targetStrings => command.translateOnlyNewStrings
    /\ command.tasks[i].state = "succeeded" /\ command.tasks[i].outputPath # Null =>
         IF command.translateOnlyNewStrings
         THEN command.tasks[i].outputPath = command.targetFilePaths[i]
         ELSE /\ ~command.tasks[i].replaced
              /\ \/ command.tasks[i].outputPath = command.targetFilePaths[i]
                 \/ \E n \in 1..CommandEntries :
                      command.tasks[i].outputPath
                        = SpecCopyName(command.targetFilePaths[i], n)

\* C22 witness: of two languages translated by one command without replacing,
\* one is saved as a copy beside the existing file.
C22_Witness ==
  /\ Len(command.tasks) = 2
  /\ ~command.translateOnlyNewStrings
  /\ \E i \in 1..2 :
       /\ command.tasks[i].state = "succeeded"
       /\ command.tasks[i].outputPath # Null
       /\ command.tasks[i].outputPath # command.targetFilePaths[i]
       /\ existsSync(fs, command.targetFilePaths[i])

C24_LanguagesIndependent ==
  /\ \A i \in 1..Len(command.tasks) :
       /\ command.tasks[i].outcome \in {"throws", "null"} =>
            command.tasks[i].state = "failed"
       /\ command.tasks[i].outcome = "empty" => command.tasks[i].state = "succeeded"
       /\ command.tasks[i].outcome \in {"translations", "filtered"} =>
            /\ command.tasks[i].state \in {"succeeded", "failed"}
            /\ command.tasks[i].state = "succeeded" =>
                 command.tasks[i].replaced \/ command.tasks[i].outputPath \in command.made
       /\ command.tasks[i].outcome = "pending" /\ command.tasks[i].state # "failed" =>
            /\ command.tasks[i].state = "requested"
            /\ command.pc = "translating"
  /\ command.pc = "done" =>
       /\ Len(command.tasks) = Len(command.targetLanguages)
       /\ \A i \in 1..Len(command.tasks) :
            command.tasks[i].state \in {"succeeded", "failed"}
       /\ command.successCount + Len(command.failedLanguages)
            = Len(command.targetLanguages)
       /\ \A i \in 1..Len(command.tasks) :
            command.tasks[i].state = "failed" <=>
              \E k \in 1..Len(command.failedLanguages) :
                command.failedLanguages[k] = command.targetLanguages[i]

\* C24 witness: the command has ended with one language failed and the other
\* saved.
C24_Witness ==
  /\ command.pc = "done"
  /\ command.successCount = 1
  /\ Len(command.failedLanguages) = 1
  /\ \E i \in 1..2 :
       /\ command.tasks[i].state = "succeeded"
       /\ command.tasks[i].outputPath # Null

\* C29: cancelling leaves the project untouched: when the language selection
\* or the update/create prompt is dismissed the command has created no file
\* and no directory and has sent no request.
C29_CancelLeavesProjectUntouched ==
  command.pc = "cancelled" => command.made = {} /\ command.tasks = <<>>


====
